---- MODULE Spec2Model ----
(***************************************************************************)
(* Roll resolution engine of the dice roller: formula parsers, dice        *)
(* requirement planner, condition evaluator, step resolver                 *)
(* (src/utils/engine.ts) and the chain orchestrators                       *)
(* (src/components/Roller.tsx).                                            *)
(*                                                                         *)
(* Text is modelled as a sequence of one-character strings, so that the    *)
(* regular expressions and parseInt of the source are computed character   *)
(* by character.                                                           *)
(***************************************************************************)
EXTENDS Integers, Sequences, FiniteSets, TLC

---------------------------------------------------------------------------
(* Bounds of the model *)

\* longest raw (unstructured) formula text that is enumerated
MaxRawLen == 4
\* largest number of signed terms of a generated formula
MaxTerms == 4
\* the most dice a resolved step has
MaxDice == 2
\* the most steps a preset has
MaxSteps == 3
\* the most failsafe timers that fire during one roll
MaxFailsafes == 3

\* how many roll-result messages are broadcast while the calls of
\* DicePlus.roll are followed
MaxMessages == 3

---------------------------------------------------------------------------
(* JavaScript values that are not numbers *)

\* the result of parseInt on text without a leading number, and of
\* arithmetic on undefined
NaN == -999999
\* the value of a missing property (diceValues[id], variableValues[id])
Undefined == -999998

IsNumber(x) == x # NaN /\ x # Undefined

\* a + b of JavaScript on number | undefined | NaN
Plus(a, b) == IF IsNumber(a) /\ IsNumber(b) THEN a + b ELSE NaN

\* a === b of JavaScript (NaN is not equal to itself, undefined is)
StrictEq(a, b) == a # NaN /\ b # NaN /\ a = b

\* relational comparison of JavaScript: false as soon as one side is NaN
\* or undefined
Rel(op, a, b) ==
  /\ IsNumber(a)
  /\ IsNumber(b)
  /\ CASE op = ">"  -> a > b
       [] op = "<"  -> a < b
       [] op = ">=" -> a >= b
       [] op = "<=" -> a <= b
       [] OTHER     -> FALSE

---------------------------------------------------------------------------
(* Text *)

Digit == {"0", "1", "2", "3", "4", "5", "6", "7", "8", "9"}

DigitVal(c) ==
  CASE c = "0" -> 0 [] c = "1" -> 1 [] c = "2" -> 2 [] c = "3" -> 3
    [] c = "4" -> 4 [] c = "5" -> 5 [] c = "6" -> 6 [] c = "7" -> 7
    [] c = "8" -> 8 [] c = "9" -> 9

DigitChar(n) ==
  CASE n = 0 -> "0" [] n = 1 -> "1" [] n = 2 -> "2" [] n = 3 -> "3"
    [] n = 4 -> "4" [] n = 5 -> "5" [] n = 6 -> "6" [] n = 7 -> "7"
    [] n = 8 -> "8" [] n = 9 -> "9"

Drop(s, n) == SubSeq(s, n + 1, Len(s))

\* the longest prefix of s made of digits: what \d* and \d+ consume
RECURSIVE DigitPrefix(_)
DigitPrefix(s) ==
  IF s = <<>> \/ Head(s) \notin Digit
  THEN <<>>
  ELSE <<Head(s)>> \o DigitPrefix(Tail(s))

\* the decimal value of a sequence of digits
RECURSIVE DigitsVal(_)
DigitsVal(ds) ==
  IF ds = <<>>
  THEN 0
  ELSE 10 * DigitsVal(SubSeq(ds, 1, Len(ds) - 1)) + DigitVal(ds[Len(ds)])

\* the decimal text of a natural number, as the author of a formula types it
RECURSIVE ToDigits(_)
ToDigits(n) ==
  IF n < 10 THEN <<DigitChar(n)>> ELSE ToDigits(n \div 10) \o <<DigitChar(n % 10)>>

IsSpace(c) == c = " "

\* String.prototype.toLowerCase on the alphabet of the model
toLowerCase(s) ==
  [i \in 1..Len(s) |-> IF s[i] = "D" THEN "d" ELSE s[i]]

\* formula.replace(/\s/g, '')
RECURSIVE removeSpaces(_)
removeSpaces(s) ==
  IF s = <<>> THEN <<>>
  ELSE IF IsSpace(Head(s)) THEN removeSpaces(Tail(s))
  ELSE <<Head(s)>> \o removeSpaces(Tail(s))

RECURSIVE trimStart(_)
trimStart(s) ==
  IF s # <<>> /\ IsSpace(Head(s)) THEN trimStart(Tail(s)) ELSE s

\* parseInt(text): leading white space is skipped, one sign is accepted, then
\* the longest run of digits is read and whatever follows is ignored; NaN
\* when there is no digit at that place
parseInt(s) ==
  LET t  == trimStart(s)
      sg == IF t # <<>> /\ Head(t) = "-" THEN -1 ELSE 1
      u  == IF t # <<>> /\ Head(t) \in {"+", "-"} THEN Tail(t) ELSE t
      ds == DigitPrefix(u)
  IN IF ds = <<>> THEN NaN ELSE sg * DigitsVal(ds)

---------------------------------------------------------------------------
(* Formula parsers *)

\* formula.match(/^(\d*)d(\d+)([\+\-]\d+)?$/): ok is FALSE for a null match,
\* m1, m2, m3 are the capture groups (m3 = <<>> when the group did not take
\* part)
matchSimple(s) ==
  LET m1   == DigitPrefix(s)
      r1   == Drop(s, Len(m1))
      hasD == r1 # <<>> /\ Head(r1) = "d"
      r2   == IF hasD THEN Tail(r1) ELSE <<>>
      m2   == DigitPrefix(r2)
      r3   == Drop(r2, Len(m2))
      tail == \/ r3 = <<>>
              \/ /\ Head(r3) \in {"+", "-"}
                 /\ Tail(r3) # <<>>
                 /\ DigitPrefix(Tail(r3)) = Tail(r3)
  IN [ok |-> hasD /\ m2 # <<>> /\ tail, m1 |-> m1, m2 |-> m2, m3 |-> r3]

Fallback == [count |-> 1, sides |-> 20, modifier |-> 0]

\* parseFormula reading the modifier without its sign
parseFormula_UnsignedModifier(formula) ==
  LET m == matchSimple(toLowerCase(formula))
  IN IF ~m.ok
     THEN LET constant == parseInt(formula)
          IN IF constant # NaN
             THEN [count |-> 0, sides |-> 0, modifier |-> constant]
             ELSE Fallback
     ELSE [count    |-> IF m.m1 # <<>> THEN parseInt(m.m1) ELSE 1,
           sides    |-> parseInt(m.m2),
           modifier |-> IF m.m3 # <<>> THEN parseInt(Tail(m.m3)) ELSE 0]

parseFormula(formula) ==
  LET m == matchSimple(toLowerCase(formula))
  IN IF ~m.ok
     THEN LET constant == parseInt(formula)
          IN IF constant # NaN
             THEN [count |-> 0, sides |-> 0, modifier |-> constant]
             ELSE Fallback
     ELSE [count    |-> IF m.m1 # <<>> THEN parseInt(m.m1) ELSE 1,
           sides    |-> parseInt(m.m2),
           modifier |-> IF m.m3 # <<>> THEN parseInt(m.m3) ELSE 0]

\* normalized.match(/[+\-](\d*d\d+|\d+)/g) || []: the successive leftmost
\* matches, the dice alternative tried before the number alternative
RECURSIVE matchParts(_)
matchParts(s) ==
  IF s = <<>> THEN <<>>
  ELSE IF Head(s) \notin {"+", "-"} THEN matchParts(Tail(s))
  ELSE LET r    == Tail(s)
           n1   == DigitPrefix(r)
           a1   == Drop(r, Len(n1))
           n2   == IF a1 # <<>> /\ Head(a1) = "d" THEN DigitPrefix(Tail(a1)) ELSE <<>>
       IN IF n2 # <<>>
          THEN <<(<<Head(s)>> \o n1 \o <<"d">> \o n2)>>
                 \o matchParts(Drop(a1, 1 + Len(n2)))
          ELSE IF n1 # <<>>
          THEN <<(<<Head(s)>> \o n1)>> \o matchParts(a1)
          ELSE matchParts(r)

\* count copies of the single-die group {count: 1, sides}
RECURSIVE pushGroups(_, _)
pushGroups(count, sides) ==
  IF count <= 0 THEN <<>>
  ELSE <<[count |-> 1, sides |-> sides]>> \o pushGroups(count - 1, sides)

\* the loop over the parts of parseFormulaAdvanced
RECURSIVE collectParts(_)
collectParts(parts) ==
  IF parts = <<>> THEN [diceGroups |-> <<>>, modifier |-> 0]
  ELSE LET part == Head(parts)
           sign == IF Head(part) = "-" THEN -1 ELSE 1
           expr == Tail(part)
           rest == collectParts(Tail(parts))
       IN IF \E i \in 1..Len(expr) : expr[i] = "d"
          THEN LET dMatch == matchSimple(expr)
                   count  == IF dMatch.m1 # <<>> THEN parseInt(dMatch.m1) ELSE 1
                   sides  == parseInt(dMatch.m2)
               IN IF dMatch.ok /\ dMatch.m3 = <<>>
                  THEN [diceGroups |-> pushGroups(count, sides) \o rest.diceGroups,
                        modifier   |-> rest.modifier]
                  ELSE rest
          ELSE LET num == parseInt(expr)
               IN IF num # NaN
                  THEN [diceGroups |-> rest.diceGroups,
                        modifier   |-> sign * num + rest.modifier]
                  ELSE rest

\* parseFormulaAdvanced without the implicit leading +
parseFormulaAdvanced_NoImplicitPlus(formula) ==
  collectParts(matchParts(toLowerCase(removeSpaces(formula))))

parseFormulaAdvanced(formula) ==
  LET stripped   == toLowerCase(removeSpaces(formula))
      normalized == IF stripped # <<>> /\ Head(stripped) \in {"+", "-"}
                    THEN stripped
                    ELSE <<"+">> \o stripped
  IN collectParts(matchParts(normalized))

---------------------------------------------------------------------------
(* Stat resolver *)

\* step.statModifier is absent
NoKey == [type |-> "", id |-> ""]

\* map[key] of JavaScript: undefined for a missing key
Lookup(map, key) == IF key \in DOMAIN map THEN map[key] ELSE Undefined

\* x ?? dflt
Nullish(x, dflt) == IF x = Undefined THEN dflt ELSE x

\* x without the || dflt
OrElse_NoDefault(x, dflt) == x

\* x || dflt on number | undefined
OrElse(x, dflt) == IF x = Undefined \/ x = NaN \/ x = 0 THEN dflt ELSE x

\* stats.customStats.find(s => s.id === id)?.value
RECURSIVE findCustom(_, _)
findCustom(customStats, id) ==
  IF customStats = <<>> THEN Undefined
  ELSE IF Head(customStats).id = id THEN Head(customStats).value
  ELSE findCustom(Tail(customStats), id)

\* key is the reference "type:id" already split at the colon
getStatModifierValue(stats, key) ==
  IF key = NoKey THEN 0
  ELSE IF key.type = "dnd_attr"
       THEN (OrElse(Lookup(stats.dndAttributes, key.id), 10) - 10) \div 2
  ELSE IF key.type = "dnd_skill" THEN OrElse(Lookup(stats.dndSkills, key.id), 0)
  ELSE IF key.type = "dh" THEN OrElse(Lookup(stats.daggerheartStats, key.id), 0)
  ELSE IF key.type = "custom" THEN OrElse(findCustom(stats.customStats, key.id), 0)
  ELSE 0

\* the label is display text only; it is kept as one opaque piece of text
getStatLabel(stats, key) ==
  IF key = NoKey THEN <<>>
  ELSE IF key.type \in {"dnd_attr", "dnd_skill", "dh"} THEN <<key.id>>
  ELSE IF key.type = "custom" THEN <<"Custom">>
  ELSE <<"Unknown">>

---------------------------------------------------------------------------
(* Dice requirement planner *)

\* the loop absorbing every d12 instead of the first two
RECURSIVE extraSides_AbsorbEvery12(_, _)
extraSides_AbsorbEvery12(diceGroups, d12Count) ==
  IF diceGroups = <<>> THEN <<>>
  ELSE IF Head(diceGroups).sides = 12
       THEN extraSides_AbsorbEvery12(Tail(diceGroups), d12Count + 1)
       ELSE <<Head(diceGroups).sides>> \o extraSides_AbsorbEvery12(Tail(diceGroups), d12Count)

\* the loop of getStepDiceConfig over the dice groups of a duality formula:
\* the sides of the dice that are added as standard dice
RECURSIVE extraSides(_, _)
extraSides(diceGroups, d12Count) ==
  IF diceGroups = <<>> THEN <<>>
  ELSE IF Head(diceGroups).sides = 12 /\ d12Count < 2
       THEN extraSides(Tail(diceGroups), d12Count + 1)
       ELSE <<Head(diceGroups).sides>> \o extraSides(Tail(diceGroups), d12Count)

\* generateId() gives every die a fresh identifier; the dice of one call are
\* numbered idBase + 1, idBase + 2, ... and callers pass distinct bases

\* the dice of a duality step: the hope die, the fear die and one standard die
\* for each of the extra sides
dualityDice(extra, idBase) ==
  << [id |-> idBase + 1, sides |-> 12, type |-> "hope"],
     [id |-> idBase + 2, sides |-> 12, type |-> "fear"] >>
  \o [i \in 1..Len(extra) |->
        [id |-> idBase + 2 + i, sides |-> extra[i], type |-> "standard"]]

\* the daggerheart branch of getStepDiceConfig, given the parsed formula
dualityConfig(parsed, idBase) ==
  [baseModifier |-> parsed.modifier,
   dice         |-> dualityDice(extraSides(parsed.diceGroups, 0), idBase)]

\* the standard branch of getStepDiceConfig, given the parsed formula
standardConfig(parsed, idBase) ==
  [baseModifier |-> parsed.modifier,
   dice         |-> [i \in 1..parsed.count |->
                       [id |-> idBase + i, sides |-> parsed.sides, type |-> "standard"]]]

getStepDiceConfig(step, idBase) ==
  IF step.type = "daggerheart"
  THEN dualityConfig(parseFormulaAdvanced(step.formula), idBase)
  ELSE standardConfig(parseFormula(step.formula), idBase)

---------------------------------------------------------------------------
(* Condition evaluator *)

\* step.condition is absent
NoCondition == [absent |-> TRUE]

\* previousResults.find(r => r.stepId === id) found nothing
NoResult == [absent |-> TRUE]

RECURSIVE findResult(_, _)
findResult(results, stepId) ==
  IF results = <<>> THEN NoResult
  ELSE IF Head(results).stepId = stepId THEN Head(results)
  ELSE findResult(Tail(results), stepId)

DhOperators == {"is_hope", "is_fear", "is_crit"}

\* the switch over the operator with is_hope answering for hope alone
compare_HopeOnly(operator, sourceValue, threshold, dhOutcome) ==
  CASE operator \in {">", "<", ">=", "<="} -> Rel(operator, sourceValue, threshold)
    [] operator = "=="      -> StrictEq(sourceValue, threshold)
    [] operator = "is_hope" -> dhOutcome = "hope"
    [] operator = "is_fear" -> dhOutcome = "fear"
    [] operator = "is_crit" -> dhOutcome = "crit"
    [] OTHER                -> FALSE

\* the switch over the operator
compare(operator, sourceValue, threshold, dhOutcome) ==
  CASE operator \in {">", "<", ">=", "<="} -> Rel(operator, sourceValue, threshold)
    [] operator = "=="      -> StrictEq(sourceValue, threshold)
    [] operator = "is_hope" -> dhOutcome = "hope" \/ dhOutcome = "crit"
    [] operator = "is_fear" -> dhOutcome = "fear"
    [] operator = "is_crit" -> dhOutcome = "crit"
    [] OTHER                -> FALSE

\* the evaluator taking the literal value for the threshold in every case
checkCondition_LiteralThreshold(step, previousResults, variableValues) ==
  IF step.condition = NoCondition THEN TRUE
  ELSE
    LET c           == step.condition
        checkSource == IF c.checkSource = "unset" THEN "step_result" ELSE c.checkSource
        value       == Nullish(c.value, 0)
        prev        == findResult(previousResults, c.dependsOnStepId)
        threshold   == IF c.operator \notin DhOperators
                       THEN value
                       ELSE 0
    IN IF checkSource = "variable"
       THEN IF c.checkVariableId = "" THEN FALSE
            ELSE compare(c.operator,
                         Nullish(Lookup(variableValues, c.checkVariableId), 0),
                         threshold, "none")
       ELSE IF prev = NoResult \/ prev.skipped THEN FALSE
            ELSE compare(c.operator, prev.total, threshold, prev.dhOutcome)

\* an unset text field (checkVariableId, variableId, dependsOnStepId) is "",
\* an unset checkSource is "unset", an unset value is Undefined
checkCondition(step, previousResults, variableValues) ==
  IF step.condition = NoCondition THEN TRUE
  ELSE
    LET c           == step.condition
        checkSource == IF c.checkSource = "unset" THEN "step_result" ELSE c.checkSource
        value       == Nullish(c.value, 0)
        prev        == findResult(previousResults, c.dependsOnStepId)
        threshold   == IF c.operator \notin DhOperators
                       THEN IF c.compareTarget = "variable" /\ c.variableId # ""
                            THEN Nullish(Lookup(variableValues, c.variableId), 0)
                            ELSE value
                       ELSE 0
    IN IF checkSource = "variable"
       THEN IF c.checkVariableId = "" THEN FALSE
            ELSE compare(c.operator,
                         Nullish(Lookup(variableValues, c.checkVariableId), 0),
                         threshold, "none")
       ELSE IF prev = NoResult \/ prev.skipped THEN FALSE
            ELSE compare(c.operator, prev.total, threshold, prev.dhOutcome)

---------------------------------------------------------------------------
(* Step resolver *)

\* diceConfig.find(d => d.type === role): the first die of that role
RECURSIVE findDie(_, _)
findDie(diceConfig, role) ==
  IF diceConfig = <<>> THEN NoResult
  ELSE IF Head(diceConfig).type = role THEN Head(diceConfig)
  ELSE findDie(Tail(diceConfig), role)

\* rolls.reduce((a, b) => a + b, 0)
RECURSIVE sumRolls(_)
sumRolls(rolls) ==
  IF rolls = <<>> THEN 0
  ELSE Plus(sumRolls(SubSeq(rolls, 1, Len(rolls) - 1)), rolls[Len(rolls)])

\* currentDice.reduce((acc, d) => acc + d.sides, 0)
RECURSIVE sumSides(_)
sumSides(dice) ==
  IF dice = <<>> THEN 0 ELSE Head(dice).sides + sumSides(Tail(dice))

\* the duality outcome taking "hope >= fear" before the test for a match
classify_HopeFirst(hope, fear) ==
  IF Rel(">=", hope, fear) THEN "hope"
  ELSE IF StrictEq(hope, fear) THEN "crit"
  ELSE "fear"

\* let outcome = 'hope'; if (hope === fear) ... else if (hope >= fear) ... else ...
classify(hope, fear) ==
  IF StrictEq(hope, fear) THEN "crit"
  ELSE IF Rel(">=", hope, fear) THEN "hope"
  ELSE "fear"

\* the critical total counting the dice instead of adding their sides
standardTotal_CountDice(diceConfig, sum, totalModifier, wasCrit) ==
  IF wasCrit /\ Len(diceConfig) > 0
  THEN Plus(Plus(Len(diceConfig), sum), totalModifier)
  ELSE Plus(sum, totalModifier)

\* let total = sum + totalModifier; if (wasCrit && currentDice.length > 0)
\* total = maxDice + sum + totalModifier
standardTotal(diceConfig, sum, totalModifier, wasCrit) ==
  IF wasCrit /\ Len(diceConfig) > 0
  THEN Plus(Plus(sumSides(diceConfig), sum), totalModifier)
  ELSE Plus(sum, totalModifier)

resolveStepResult(step, diceValues, diceConfig, totalModifier, displayFormula, forceCrit) ==
  IF step.type = "daggerheart"
  THEN LET hopeDie == findDie(diceConfig, "hope")
           fearDie == findDie(diceConfig, "fear")
           hope    == IF hopeDie # NoResult THEN Lookup(diceValues, hopeDie.id) ELSE 0
           fear    == IF fearDie # NoResult THEN Lookup(diceValues, fearDie.id) ELSE 0
           outcome == classify(hope, fear)
       IN [stepId     |-> step.id,
           label      |-> step.label,
           total      |-> Plus(Plus(hope, fear), totalModifier),
           rolls      |-> <<hope, fear>>,
           formula    |-> displayFormula,
           type       |-> "daggerheart",
           damageType |-> step.damageType,
           skipped    |-> FALSE,
           dhHope     |-> hope,
           dhFear     |-> fear,
           dhOutcome  |-> outcome,
           addToSum   |-> step.addToSum,
           wasCrit    |-> (outcome = "crit")]
  ELSE LET rolls   == [i \in 1..Len(diceConfig) |-> Lookup(diceValues, diceConfig[i].id)]
           sum     == sumRolls(rolls)
           wasCrit == forceCrit \/ step.isCrit
           total   == standardTotal(diceConfig, sum, totalModifier, wasCrit)
       IN [stepId     |-> step.id,
           label      |-> step.label,
           total      |-> total,
           rolls      |-> rolls,
           formula    |-> displayFormula,
           type       |-> "standard",
           damageType |-> step.damageType,
           skipped    |-> FALSE,
           dhHope     |-> Undefined,
           dhFear     |-> Undefined,
           dhOutcome  |-> "none",
           addToSum   |-> step.addToSum,
           wasCrit    |-> wasCrit]

createSkippedResult(step) ==
  [stepId     |-> step.id,
   label      |-> step.label,
   total      |-> 0,
   rolls      |-> <<>>,
   formula    |-> step.formula,
   type       |-> step.type,
   damageType |-> step.damageType,
   skipped    |-> TRUE,
   dhHope     |-> Undefined,
   dhFear     |-> Undefined,
   dhOutcome  |-> "none",
   addToSum   |-> step.addToSum,
   wasCrit    |-> FALSE]

---------------------------------------------------------------------------
(* State *)

VARIABLES
  input,   \* the arguments of a call of one of the pure functions of the engine
  call,    \* the function that was called ("none" before the call)
  ret,     \* what the call returned
  mode,    \* the roller that is mounted: "sequential", "simultaneous", "none"
  preset,  \* preset.steps, the chain that is rolled
  variables,         \* the variables prop: the values of the chain variables
  phase,             \* "mounted", "rolling", "awaiting", "resolved", "complete"
  results,           \* useState results
  isComplete,        \* useState isComplete
  currentStepIndex,  \* useState currentStepIndex (sequential roller)
  sceneDice,         \* useState sceneDice (sequential roller)
  activeDiceIds,     \* useState activeDiceIds (sequential roller)
  pendingEval,       \* the pending setTimeout(() => evaluateNextStep(..))
  failsafe,          \* failsafeRef: the pending failsafe timer
  failsafeCount,     \* how many failsafe timers have fired
  nextId,            \* the identifiers generateId() has handed out so far
  chainHasCritState, \* useState chainHasCrit (sequential roller with crit propagation)
  stepConfigs,       \* stepConfigsRef (simultaneous roller)
  request,           \* the formula parts sent to Dice+ (simultaneous roller)
  diceResult,        \* what DicePlus.roll resolved with
  rollComplete       \* the ROLL_COMPLETE message that was broadcast

engineVars == <<input, call, ret>>

rollerVars == <<results, isComplete, currentStepIndex, sceneDice, activeDiceIds,
                pendingEval, failsafe, failsafeCount, nextId, chainHasCritState>>

chainVars == <<mode, preset, variables, phase, rollerVars,
               stepConfigs, request, diceResult, rollComplete>>

vars == <<engineVars, chainVars>>

\* absent timer, ref or message
None == [absent |-> TRUE]

\* no roller is mounted
ChainIdle ==
  /\ mode = "none" /\ preset = <<>> /\ variables = <<>> /\ phase = "none"
  /\ results = <<>> /\ isComplete = FALSE /\ currentStepIndex = 0
  /\ sceneDice = <<>> /\ activeDiceIds = <<>>
  /\ pendingEval = None /\ failsafe = None /\ failsafeCount = 0 /\ nextId = 0
  /\ chainHasCritState = FALSE
  /\ stepConfigs = <<>> /\ request = <<>> /\ diceResult = None
  /\ rollComplete = None

\* no call of a pure function is under way
EngineIdle == input = <<>> /\ call = "none" /\ ret = <<>>

---------------------------------------------------------------------------
(* Formula texts *)

Chars(n) == ToDigits(n)

\* a signed term of a formula: a dice term [count]d<sides> or a number
DiceTerm(sign, hasCount, count, sides) ==
  [sign |-> sign, kind |-> "dice", hasCount |-> hasCount, count |-> count,
   sides |-> sides, value |-> 0]
ConstTerm(sign, value) ==
  [sign |-> sign, kind |-> "const", hasCount |-> FALSE, count |-> 0,
   sides |-> 0, value |-> value]

TermSet ==
       {DiceTerm("+", FALSE, 1, s) : s \in {4, 6, 12}}
  \cup {DiceTerm("+", TRUE, 2, s) : s \in {4, 6, 12}}
  \cup {DiceTerm("-", FALSE, 1, 4), ConstTerm("+", 5), ConstTerm("-", 3)}

TermText(t) ==
  IF t.kind = "dice"
  THEN (IF t.hasCount THEN Chars(t.count) ELSE <<>>) \o <<"d">> \o Chars(t.sides)
  ELSE Chars(t.value)

\* the text of a list of terms; lead says whether a leading + is written
RECURSIVE TermsText(_, _)
TermsText(terms, lead) ==
  IF terms = <<>> THEN <<>>
  ELSE (IF Head(terms).sign = "-" THEN <<"-">> ELSE IF lead THEN <<"+">> ELSE <<>>)
         \o TermText(Head(terms)) \o TermsText(Tail(terms), TRUE)

SeqsUpTo(S, n) == UNION {[1..k -> S] : k \in 0..n}

RawAlphabet == {"2", "5", "d", "D", "+", "-", " ", "a"}

ExampleTexts ==
  { <<"2", "d", "6", "+", "4", "+", "3">>,
    <<"5", "a", "b", "c">>,
    <<"2", "d", "6", " ", "+", " ", "4">>,
    <<"1", "d", "2", "0", "-", "1">>,
    <<"1", "D", "2", "0", "+", "4">>,
    <<"4", "d", "1", "2">>,
    <<"2", "d", "2", "0">>,
    <<"1", "0">> }

ParserInputs ==
       {[kind |-> "raw", formula |-> f, terms |-> <<>>, lead |-> FALSE] :
          f \in SeqsUpTo(RawAlphabet, MaxRawLen) \cup ExampleTexts}
  \cup {[kind |-> "terms", formula |-> TermsText(ts, FALSE), terms |-> ts, lead |-> FALSE] :
          ts \in SeqsUpTo(TermSet, MaxTerms)}
  \cup {[kind |-> "terms", formula |-> TermsText(ts, TRUE), terms |-> ts, lead |-> TRUE] :
          ts \in {t \in SeqsUpTo(TermSet, MaxTerms) : t # <<>> /\ t[1].sign = "+"}}

\* the planner reads only the type and the formula of a step
PlanStep(type, formula) == [type |-> type, formula |-> formula]

---------------------------------------------------------------------------
(* Specification of the parsers and the planner: one call on one formula *)

InitParser ==
  /\ input \in ParserInputs
  /\ call = "none"
  /\ ret = <<>>
  /\ ChainIdle

CallParseFormula ==
  /\ call = "none"
  /\ call' = "parseFormula"
  /\ ret' = parseFormula(input.formula)
  /\ UNCHANGED <<input, chainVars>>

CallParseFormulaAdvanced ==
  /\ call = "none"
  /\ call' = "parseFormulaAdvanced"
  /\ ret' = parseFormulaAdvanced(input.formula)
  /\ UNCHANGED <<input, chainVars>>

CallPlanStandard ==
  /\ call = "none"
  /\ call' = "getStepDiceConfig standard"
  /\ ret' = getStepDiceConfig(PlanStep("standard", input.formula), 0)
  /\ UNCHANGED <<input, chainVars>>

CallPlanDuality ==
  /\ call = "none"
  /\ call' = "getStepDiceConfig daggerheart"
  /\ ret' = getStepDiceConfig(PlanStep("daggerheart", input.formula), 0)
  /\ UNCHANGED <<input, chainVars>>

NextParser ==
  \/ CallParseFormula
  \/ CallParseFormulaAdvanced
  \/ CallPlanStandard
  \/ CallPlanDuality

SpecParser == InitParser /\ [][NextParser]_vars

---------------------------------------------------------------------------
(* Specification of the step resolver: one call on one step and its dice *)

\* a step of a preset; label, formula and damage type are carried through
RollStep(id, type, formula, isCrit, addToSum, condition) ==
  [id |-> id, label |-> id, type |-> type, formula |-> formula,
   damageType |-> "none", addToSum |-> addToSum, isCrit |-> isCrit,
   statModifier |-> NoKey, condition |-> condition]

\* the dice a resolved step may come with: the two roles of a duality roll on
\* d12 and standard dice on d6 or d20
DieKinds(type) ==
  IF type = "daggerheart"
  THEN {[sides |-> 12, type |-> "hope"], [sides |-> 12, type |-> "fear"],
        [sides |-> 6, type |-> "standard"]}
  ELSE {[sides |-> 6, type |-> "standard"], [sides |-> 20, type |-> "standard"]}

\* the faces a die may show; Undefined stands for a die without a value
Faces(sides) == {v \in {1, 3, 4, 8, sides} : v <= sides}

Modifiers == {-1, 2, 5}

\* diceValues: the record of the values that arrived, keyed by die id
ValuesOf(vals) == [i \in {j \in DOMAIN vals : vals[j] # Undefined} |-> vals[i]]

\* the values n dice of the given kinds may come with
DieValues(kinds) ==
  {v \in [DOMAIN kinds -> {1, 3, 4, 6, 8, 12, 20, Undefined}] :
     \A i \in DOMAIN kinds : v[i] \in Faces(kinds[i].sides) \cup {Undefined}}

ResolveInput(type, kinds, vals, m, fc, isCrit, addToSum) ==
  [step          |-> RollStep("s", type, <<>>, isCrit, addToSum, NoCondition),
   diceConfig    |-> [i \in DOMAIN kinds |-> [id |-> i, sides |-> kinds[i].sides,
                                              type |-> kinds[i].type]],
   diceValues    |-> ValuesOf(vals),
   totalModifier |-> m,
   forceCrit     |-> fc]

InitResolve ==
  /\ \E n \in 0..MaxDice, type \in {"standard", "daggerheart"} :
       \E kinds \in [1..n -> DieKinds(type)] :
         \E vals \in DieValues(kinds), m \in Modifiers, fc, isCrit, addToSum \in BOOLEAN :
           input = ResolveInput(type, kinds, vals, m, fc, isCrit, addToSum)
  /\ call = "none"
  /\ ret = <<>>
  /\ ChainIdle

CallResolveStandard ==
  /\ call = "none"
  /\ input.step.type = "standard"
  /\ call' = "resolveStepResult standard"
  /\ ret' = resolveStepResult(input.step, input.diceValues, input.diceConfig,
                              input.totalModifier, <<>>, input.forceCrit)
  /\ UNCHANGED <<input, chainVars>>

CallResolveDuality ==
  /\ call = "none"
  /\ input.step.type = "daggerheart"
  /\ call' = "resolveStepResult daggerheart"
  /\ ret' = resolveStepResult(input.step, input.diceValues, input.diceConfig,
                              input.totalModifier, <<>>, input.forceCrit)
  /\ UNCHANGED <<input, chainVars>>

CallCreateSkipped ==
  /\ call = "none"
  /\ call' = "createSkippedResult"
  /\ ret' = createSkippedResult(input.step)
  /\ UNCHANGED <<input, chainVars>>

NextResolve ==
  \/ CallResolveStandard
  \/ CallResolveDuality
  \/ CallCreateSkipped

SpecResolve == InitResolve /\ [][NextResolve]_vars

---------------------------------------------------------------------------
(* Specification of the condition evaluator: one call on one condition *)

Operators == {">", "<", ">=", "<=", "==", "is_hope", "is_fear", "is_crit"}

RollCondition(checkSource, dependsOnStepId, checkVariableId, operator, compareTarget, value, variableId) ==
  [checkSource |-> checkSource, dependsOnStepId |-> dependsOnStepId,
   checkVariableId |-> checkVariableId, operator |-> operator,
   compareTarget |-> compareTarget, value |-> value, variableId |-> variableId]

\* the conditions of a step: none, or one on step "A" or on a step "Z" that
\* has no result, or on variable "v", against a literal or variable "w"
Conditions ==
  {NoCondition} \cup
  {RollCondition(cs, dep, cv, op, ct, val, vid) :
     cs \in {"unset", "step_result", "variable"}, dep \in {"A", "Z"},
     cv \in {"", "v"}, op \in Operators, ct \in {"value", "variable"},
     val \in {Undefined, 5, 10}, vid \in {"", "w"}}

\* a result of an earlier step as the resolver or createSkippedResult makes it
PriorResult(id, type, total, skipped, outcome) ==
  [stepId |-> id, label |-> id, total |-> total, rolls |-> <<>>, formula |-> <<>>,
   type |-> type, damageType |-> "none", skipped |-> skipped,
   dhHope |-> Undefined, dhFear |-> Undefined, dhOutcome |-> outcome,
   addToSum |-> TRUE, wasCrit |-> (outcome = "crit")]

PriorResults(id) ==
       {PriorResult(id, "standard", 0, TRUE, "none")}
  \cup {PriorResult(id, "standard", t, FALSE, "none") : t \in {5, 10}}
  \cup {PriorResult(id, "daggerheart", 10, FALSE, o) : o \in {"hope", "fear", "crit"}}

\* the results so far: none, the one of step A, or the one of A after that of
\* another step B
PreviousResults ==
       {<<>>}
  \cup {<<a>> : a \in PriorResults("A")}
  \cup {<<PriorResult("B", "daggerheart", 5, FALSE, "fear"), a>> : a \in PriorResults("A")}

\* the variables that have a value
VariableValues ==
  {ValuesOf(f) : f \in [{"v", "w"} -> {Undefined, 5, 10}]}

InitCondition ==
  /\ \E c \in Conditions, prev \in PreviousResults, vv \in VariableValues :
       input = [step |-> RollStep("s", "standard", <<>>, FALSE, TRUE, c),
                previousResults |-> prev,
                variableValues |-> vv]
  /\ call = "none"
  /\ ret = <<>>
  /\ ChainIdle

CallCheckCondition ==
  /\ call = "none"
  /\ call' = "checkCondition"
  /\ ret' = checkCondition(input.step, input.previousResults, input.variableValues)
  /\ UNCHANGED <<input, chainVars>>

NextCondition == CallCheckCondition

SpecCondition == InitCondition /\ [][NextCondition]_vars

---------------------------------------------------------------------------
(* Specification of the stat resolver: one call on one sheet and reference *)

\* the values a sheet may store under the name "a"; Undefined: not stored
Scores == {Undefined, 0, 7, 8, 10, 15}

StatValues == {Undefined, 0, 2, -1}

\* a sheet that stores the given values under "a" in each namespace; the
\* custom stats begin with a stat named "b"
Sheet(score, skill, trait, custom) ==
  [dndAttributes    |-> ValuesOf([id \in {"a"} |-> score]),
   dndSkills        |-> ValuesOf([id \in {"a"} |-> skill]),
   daggerheartStats |-> ValuesOf([id \in {"a"} |-> trait]),
   customStats      |-> <<[id |-> "b", name |-> "b", value |-> 9]>>
                        \o (IF custom = Undefined THEN <<>>
                            ELSE <<[id |-> "a", name |-> "a", value |-> custom]>>)]

\* the references "type:id" of a step, split at the colon; "" after a colon
\* that is missing
StatKeys ==
  {NoKey} \cup {[type |-> t, id |-> i] :
                  t \in {"dnd_attr", "dnd_skill", "dh", "custom", "other"}, i \in {"a", "c"}}

InitStats ==
  /\ \E score \in Scores, skill, trait, custom \in StatValues, key \in StatKeys :
       input = [stats |-> Sheet(score, skill, trait, custom), key |-> key]
  /\ call = "none"
  /\ ret = <<>>
  /\ ChainIdle

CallGetStatModifierValue ==
  /\ call = "none"
  /\ call' = "getStatModifierValue"
  /\ ret' = getStatModifierValue(input.stats, input.key)
  /\ UNCHANGED <<input, chainVars>>

NextStats == CallGetStatModifierValue

SpecStats == InitStats /\ [][NextStats]_vars

---------------------------------------------------------------------------
(* Specification of repeated resolution: resolveStepResult called twice on *)
(* the same arguments                                                      *)

\* the identifiers generateId() may return: Math.random() decides
UniqueIds == {"id1", "id2"}

\* the result with the uniqueId written into the label as well
withUniqueId_InLabel(result, uniqueId) ==
  [f \in DOMAIN result \cup {"uniqueId"} |->
     IF f \in {"uniqueId", "label"} THEN uniqueId ELSE result[f]]

\* const uniqueId = generateId(); return {..., uniqueId, ...}
withUniqueId(result, uniqueId) ==
  [f \in DOMAIN result \cup {"uniqueId"} |->
     IF f = "uniqueId" THEN uniqueId ELSE result[f]]

\* one call of resolveStepResult on the arguments in input
resolved(uniqueId) ==
  withUniqueId(resolveStepResult(input.step, input.diceValues, input.diceConfig,
                                 input.totalModifier, input.step.formula, input.forceCrit),
               uniqueId)

FirstCall ==
  /\ call = "none"
  /\ call' = "resolved once"
  /\ \E uniqueId \in UniqueIds : ret' = <<resolved(uniqueId)>>
  /\ UNCHANGED <<input, chainVars>>

SecondCall ==
  /\ call = "resolved once"
  /\ call' = "resolved twice"
  /\ \E uniqueId \in UniqueIds : ret' = Append(ret, resolved(uniqueId))
  /\ UNCHANGED <<input, chainVars>>

NextRepeat == FirstCall \/ SecondCall

SpecRepeat == InitResolve /\ [][NextRepeat]_vars

---------------------------------------------------------------------------
(* Specification of the engine: one call of any of its functions *)

InitEngine == InitParser \/ InitResolve \/ InitCondition \/ InitStats

NextEngine ==
  \/ "formula" \in DOMAIN input /\ NextParser
  \/ "diceConfig" \in DOMAIN input /\ NextResolve
  \/ "previousResults" \in DOMAIN input /\ NextCondition
  \/ "stats" \in DOMAIN input /\ NextStats

SpecEngine == InitEngine /\ [][NextEngine]_vars

---------------------------------------------------------------------------
(* Chains that are rolled *)

\* the identifiers of the steps of a preset, by position
StepIds == <<"A", "B", "C", "D", "E">>

\* the step before position i; the first step refers to a step that the
\* preset does not have
PrevId(i) == IF i = 1 THEN "Z" ELSE StepIds[i - 1]

D20 == <<"1", "d", "2", "0">>
D6Plus2 == <<"d", "6", "+", "2">>
TwoD12 == <<"2", "d", "1", "2">>

\* the steps that can stand at position i of a preset
StepsAt(i) ==
  LET id == StepIds[i]
      onPrev(op, val) == RollCondition("step_result", PrevId(i), "", op, "value", val, "")
      onVar(var, op, val) == RollCondition("variable", "", var, op, "value", val, "")
  IN << RollStep(id, "standard", D20, TRUE, TRUE, NoCondition),
       RollStep(id, "standard", D6Plus2, FALSE, FALSE, NoCondition),
       RollStep(id, "daggerheart", TwoD12, FALSE, TRUE, NoCondition),
       RollStep(id, "standard", D20, FALSE, TRUE, onPrev(">", 10)),
       RollStep(id, "standard", D6Plus2, FALSE, TRUE, onPrev("is_hope", Undefined)),
       RollStep(id, "standard", D20, FALSE, TRUE, onVar("u", ">", 0)) >>

\* the preset that has the pick[i]-th of these steps at position i
Preset(pick) == [i \in DOMAIN pick |-> StepsAt(i)[pick[i]]]

\* the sheet of a character without stats
characterStats ==
  [dndAttributes |-> <<>>, dndSkills |-> <<>>, daggerheartStats |-> <<>>,
   customStats |-> <<>>]

\* the faces a die of a chain comes to rest on
RolledFaces(sides) == {3, sides}

\* the ways the given dice can come to rest, as a map from die id to value
Rolls(dice) ==
  {[i \in {dice[k].id : k \in DOMAIN dice} |->
      LET k == CHOOSE j \in DOMAIN dice : dice[j].id = i
      IN IF pick[k] THEN dice[k].sides ELSE 3] :
     pick \in [DOMAIN dice -> BOOLEAN]}

---------------------------------------------------------------------------
(* Sequential roller: Roller.tsx, evaluateNextStep and handleRollComplete *)

\* the state a render of the roller has in its scope; the functions of that
\* render (evaluateNextStep, handleRollComplete) read these values
Render ==
  [results |-> results, currentStepIndex |-> currentStepIndex,
   activeDiceIds |-> activeDiceIds, sceneDice |-> sceneDice]

\* resArray.filter(r => !r.skipped && r.addToSum).reduce(sum + r.total), with
\* every result counted
RECURSIVE calculateGrandTotalFromResults_CountAll(_)
calculateGrandTotalFromResults_CountAll(resArray) ==
  IF resArray = <<>> THEN 0
  ELSE LET r    == resArray[Len(resArray)]
           rest == calculateGrandTotalFromResults_CountAll(SubSeq(resArray, 1, Len(resArray) - 1))
       IN IF ~r.skipped THEN Plus(rest, r.total) ELSE rest

\* const includedResults = resArray.filter(r => !r.skipped && r.addToSum);
\* const grandTotal = includedResults.reduce((sum, r) => sum + r.total, 0)
RECURSIVE calculateGrandTotalFromResults(_)
calculateGrandTotalFromResults(resArray) ==
  IF resArray = <<>> THEN 0
  ELSE LET r    == resArray[Len(resArray)]
           rest == calculateGrandTotalFromResults(SubSeq(resArray, 1, Len(resArray) - 1))
       IN IF ~r.skipped /\ r.addToSum THEN Plus(rest, r.total) ELSE rest

\* sceneDice.filter(d => stepDiceIds.includes(d.id))
filterDice(dice, ids) ==
  SelectSeq(dice, LAMBDA d : \E k \in DOMAIN ids : ids[k] = d.id)

\* the values of diceValues that belong to the dice in stepDiceIds
currentValues(diceValues, stepDiceIds) ==
  [i \in {stepDiceIds[k] : k \in DOMAIN stepDiceIds} \cap DOMAIN diceValues |-> diceValues[i]]

\* useEffect on the preset: the state is reset and the first evaluation is
\* scheduled by the render that the effect belongs to
StartRoll ==
  /\ mode = "sequential"
  /\ phase = "mounted"
  /\ phase' = "rolling"
  /\ results' = <<>>
  /\ currentStepIndex' = 0
  /\ isComplete' = FALSE
  /\ sceneDice' = <<>>
  /\ activeDiceIds' = <<>>
  /\ pendingEval' = [stepIdx |-> 0, currentResults |-> <<>>, closure |-> Render]
  /\ UNCHANGED <<engineVars, mode, preset, variables, failsafe, failsafeCount, nextId,
                 chainHasCritState,
                 stepConfigs, request, diceResult, rollComplete>>

\* the timer of evaluateNextStep(stepIdx, currentResults) fires
EvaluateNextStep ==
  /\ mode = "sequential"
  /\ pendingEval # None
  /\ LET stepIdx        == pendingEval.stepIdx
         currentResults == pendingEval.currentResults
     IN IF stepIdx >= Len(preset)
        THEN /\ rollComplete' = [results    |-> currentResults,
                                 grandTotal |-> calculateGrandTotalFromResults(currentResults)]
             /\ isComplete' = TRUE
             /\ phase' = "complete"
             /\ pendingEval' = None
             /\ UNCHANGED <<results, currentStepIndex, sceneDice, activeDiceIds,
                            failsafe, nextId>>
        ELSE LET step == preset[stepIdx + 1]
             IN IF ~checkCondition(step, currentResults, variables)
                THEN LET newResults == Append(currentResults, createSkippedResult(step))
                     IN /\ results' = newResults
                        /\ pendingEval' = [stepIdx        |-> stepIdx + 1,
                                           currentResults |-> newResults,
                                           closure        |-> pendingEval.closure]
                        /\ UNCHANGED <<isComplete, phase, rollComplete, currentStepIndex,
                                       sceneDice, activeDiceIds, failsafe, nextId>>
                ELSE \E config \in {getStepDiceConfig(step, nextId)} :
                        /\ nextId' = nextId + Len(config.dice)
                        /\ currentStepIndex' = stepIdx
                        /\ sceneDice' = sceneDice \o config.dice
                        /\ activeDiceIds' = [k \in DOMAIN config.dice |-> config.dice[k].id]
                        /\ failsafe' = [dice |-> config.dice, closure |-> pendingEval.closure]
                        /\ pendingEval' = None
                        /\ UNCHANGED <<isComplete, phase, rollComplete, results>>
  /\ UNCHANGED <<engineVars, mode, preset, variables, failsafeCount, chainHasCritState,
                 stepConfigs, request, diceResult>>

\* the state updates of handleRollComplete of the render r once the result of
\* the step is built
recordResult(r, result) ==
  /\ failsafe' = None
  /\ results' = Append(results, result)
  /\ activeDiceIds' = <<>>
  /\ pendingEval' = [stepIdx        |-> r.currentStepIndex + 1,
                     currentResults |-> Append(r.results, result),
                     closure        |-> r]
  /\ UNCHANGED <<engineVars, mode, preset, variables, phase, isComplete,
                 currentStepIndex, sceneDice, nextId, chainHasCritState,
                 stepConfigs, request, diceResult, rollComplete>>

\* handleRollComplete of the render r, called with diceValues
handleRollComplete(r, diceValues) ==
  LET stepDiceIds       == r.activeDiceIds
      currentStepValues == currentValues(diceValues, stepDiceIds)
      step              == preset[r.currentStepIndex + 1]
      baseModifier      == getStepDiceConfig(step, nextId).baseModifier
      statMod           == getStatModifierValue(characterStats, step.statModifier)
      totalModifier     == Plus(baseModifier, statMod)
      currentStepConfig == filterDice(r.sceneDice, stepDiceIds)
  IN recordResult(r, resolveStepResult(step, currentStepValues, currentStepConfig,
                                       totalModifier, step.formula, FALSE))

\* the dice of the scene have come to rest: DiceScene calls the
\* onRollComplete it was rendered with, that of the latest render
RendererReports ==
  /\ mode = "sequential"
  /\ activeDiceIds # <<>>
  /\ \E diceValues \in Rolls(filterDice(sceneDice, activeDiceIds)) :
       handleRollComplete(Render, diceValues)
  /\ UNCHANGED failsafeCount

\* the failsafe timer fires: it calls the handleRollComplete of the render
\* whose evaluateNextStep set the timer, with a random value for every die
\* of the step
FailsafeFires ==
  /\ mode = "sequential"
  /\ failsafe # None
  /\ failsafeCount < MaxFailsafes
  /\ failsafeCount' = failsafeCount + 1
  /\ \E mock \in Rolls(failsafe.dice) :
       handleRollComplete(failsafe.closure, mock)

---------------------------------------------------------------------------
(* Simultaneous roller: Roller.tsx, executeSimultaneousRoll and             *)
(* processRollResults; DicePlus.ts                                          *)

\* s.split('#')[0]
RECURSIVE beforeHash(_)
beforeHash(s) ==
  IF s = <<>> \/ Head(s) = "#" THEN <<>> ELSE <<Head(s)>> \o beforeHash(Tail(s))

\* s.trim()
RECURSIVE trimEnd(_)
trimEnd(s) ==
  IF s # <<>> /\ IsSpace(s[Len(s)]) THEN trimEnd(SubSeq(s, 1, Len(s) - 1)) ELSE s

\* (step.formula || '0').split('#')[0].trim()
cleanFormula(formula) ==
  trimEnd(trimStart(beforeHash(IF formula = <<>> THEN <<"0">> ELSE formula)))

\* [...s.matchAll(/(\d*)d(\d+)/g)]: the matches from left to right, each with
\* the digits before and after the d
RECURSIVE matchAllDice(_)
matchAllDice(s) ==
  IF s = <<>> THEN <<>>
  ELSE LET m1    == DigitPrefix(s)
           rest  == Drop(s, Len(m1))
           m2    == IF rest # <<>> /\ Head(rest) = "d" THEN DigitPrefix(Tail(rest)) ELSE <<>>
       IN IF m2 # <<>>
          THEN <<[count |-> m1, sides |-> m2]>> \o matchAllDice(Drop(rest, 1 + Len(m2)))
          ELSE matchAllDice(Tail(s))

\* the tag `${step.id}_hope`, `${step.id}_fear` or `${step.id}_std`
Tag(stepId, role) == <<stepId, role>>

\* one part of the combined formula: `${count}d${sides}{..} # ${tag}`
Part(count, sides, tag) == [count |-> count, sides |-> sides, tag |-> tag]

\* count dice of one kind, numbered from idBase + 1
newDice(idBase, count, sides, type) ==
  [i \in 1..count |-> [id |-> idBase + i, sides |-> sides, type |-> type]]

\* the first match of a duality step: count / 2 hope dice, count / 2 fear dice
\* and count % 2 standard dice, numbered from base + 1, with their parts
splitFirst(stepId, count, sides, base) ==
  [dice  |-> newDice(base, count \div 2, sides, "hope")
               \o newDice(base + count \div 2, count \div 2, sides, "fear")
               \o newDice(base + 2 * (count \div 2), count % 2, sides, "standard"),
   parts |-> (IF count \div 2 > 0 THEN <<Part(count \div 2, sides, Tag(stepId, "hope"))>> ELSE <<>>)
               \o (IF count \div 2 > 0 THEN <<Part(count \div 2, sides, Tag(stepId, "fear"))>> ELSE <<>>)
               \o (IF count % 2 > 0 THEN <<Part(count % 2, sides, Tag(stepId, "std"))>> ELSE <<>>)]

\* a later match of a duality step: count standard dice with their part
splitLater(stepId, count, sides, base) ==
  [dice  |-> newDice(base, count, sides, "standard"),
   parts |-> <<Part(count, sides, Tag(stepId, "std"))>>]

\* the dice and the part of the match at index, its count and sides parsed
splitMatch(stepId, index, count, sides, base) ==
  IF index = 1 THEN splitFirst(stepId, count, sides, base)
  ELSE splitLater(stepId, count, sides, base)

\* dhDice.push(...) and formulaParts.push(...) of one match
pushSplit(collected, piece) ==
  [dice |-> collected.dice \o piece.dice, parts |-> collected.parts \o piece.parts]

\* matches.forEach of a duality step: the dice and the formula parts that the
\* matches from index on add to those collected so far
RECURSIVE splitDuality(_, _, _, _, _)
splitDuality(stepId, matches, index, idBase, collected) ==
  IF index > Len(matches) THEN collected
  ELSE splitDuality(stepId, matches, index + 1, idBase,
         pushSplit(collected,
                   splitMatch(stepId, index,
                              IF matches[index].count # <<>>
                              THEN parseInt(matches[index].count) ELSE 1,
                              parseInt(matches[index].sides),
                              idBase + Len(collected.dice))))

\* the dice and parts of a duality step whose formula names no dice
defaultDuality(stepId, idBase) ==
  [dice  |-> newDice(idBase, 1, 12, "hope") \o newDice(idBase + 1, 1, 12, "fear"),
   parts |-> <<Part(1, 12, Tag(stepId, "hope")), Part(1, 12, Tag(stepId, "fear"))>>]

\* the dice and parts of a duality step, given the matches of its formula
dualityRequest(stepId, matches, idBase) ==
  IF Len(matches) > 0
  THEN splitDuality(stepId, matches, 1, idBase, [dice |-> <<>>, parts |-> <<>>])
  ELSE defaultDuality(stepId, idBase)

\* config.dice = dhDice of a duality step
preparedDuality(baseModifier, split) ==
  [config |-> [baseModifier |-> baseModifier, dice |-> split.dice],
   parts  |-> split.parts]

\* the part of a standard step, given its parsed formula
preparedStandard(stepId, config, parsed) ==
  [config |-> config,
   parts  |-> IF parsed.count > 0 /\ parsed.sides > 0
              THEN <<Part(parsed.count, parsed.sides, Tag(stepId, "std"))>>
              ELSE <<>>]

\* the body of preset.steps.forEach in executeSimultaneousRoll for one step:
\* its config and the parts it adds to the combined formula
prepareStep(step, idBase) ==
  IF step.type = "daggerheart"
  THEN preparedDuality(getStepDiceConfig(step, idBase).baseModifier,
                       dualityRequest(step.id, matchAllDice(cleanFormula(step.formula)), idBase))
  ELSE preparedStandard(step.id, getStepDiceConfig(step, idBase),
                        parseFormula(cleanFormula(step.formula)))

\* the dice of the step at position i are numbered from IdBase(i) + 1
IdBase(i) == 10 * i

\* configs[step.id] = config: the config of the last step with that id
configOf(configs, stepId) ==
  configs[CHOOSE i \in DOMAIN configs :
            /\ preset[i].id = stepId
            /\ \A j \in DOMAIN configs : preset[j].id = stepId => j <= i]

RECURSIVE concatAll(_)
concatAll(seqs) == IF seqs = <<>> THEN <<>> ELSE Head(seqs) \o concatAll(Tail(seqs))

\* useEffect on the preset: executeSimultaneousRoll up to the await
ExecuteSimultaneousRoll ==
  /\ mode = "simultaneous"
  /\ phase = "mounted"
  /\ \E prepared \in {[i \in DOMAIN preset |-> prepareStep(preset[i], IdBase(i))]} :
        /\ stepConfigs' = [i \in DOMAIN preset |-> prepared[i].config]
        /\ request' = concatAll([i \in DOMAIN preset |-> prepared[i].parts])
  /\ phase' = "awaiting"
  /\ UNCHANGED <<engineVars, mode, preset, variables, rollerVars, diceResult, rollComplete>>

\* the ways Dice+ can answer the parts of a request: one group per part, with
\* the tag of the part as description and one value per die
RECURSIVE Answers(_)
Answers(parts) ==
  IF parts = <<>> THEN {<<>>}
  ELSE {<<[description |-> Head(parts).tag, dice |-> d]>> \o rest :
          d \in [1..Head(parts).count -> RolledFaces(Head(parts).sides)],
          rest \in Answers(Tail(parts))}

\* handleMessage: the answer to the roll arrives and DicePlus.roll resolves
\* with parseResult(data)
DicePlusAnswers ==
  /\ mode = "simultaneous"
  /\ phase = "awaiting"
  /\ \E groups \in Answers(request) : diceResult' = [groups |-> groups]
  /\ phase' = "resolved"
  /\ UNCHANGED <<engineVars, mode, preset, variables, rollerVars, stepConfigs, request,
                 rollComplete>>

\* the result of mockResult that the roller reads: no groups
mockResult == [groups |-> <<>>]

\* the 5 s timeout passes, or the request cannot be sent: DicePlus.roll
\* resolves with mockResult(formula)
DicePlusTimesOut ==
  /\ mode = "simultaneous"
  /\ phase = "awaiting"
  /\ diceResult' = mockResult
  /\ phase' = "resolved"
  /\ UNCHANGED <<engineVars, mode, preset, variables, rollerVars, stepConfigs, request,
                 rollComplete>>

\* tagMap[tag] || []: the values of all groups described by the tag, in order
RECURSIVE tagValues(_, _)
tagValues(groups, tag) ==
  IF groups = <<>> THEN <<>>
  ELSE (IF Head(groups).description = tag THEN Head(groups).dice ELSE <<>>)
         \o tagValues(Tail(groups), tag)

\* the list a die takes its value from in the first pass
roleOf(step, d) ==
  IF step.type = "daggerheart" /\ d.type \in {"hope", "fear"} THEN d.type ELSE "std"

\* first pass, config.dice.forEach with vals.shift(): the k-th die of a role
\* takes the k-th value of the list of that role, if there is one
stepDiceValuesOf(step, config, groups) ==
  LET dice    == config.dice
      rank(i) == Cardinality({j \in 1..i : roleOf(step, dice[j]) = roleOf(step, dice[i])})
      vals(i) == tagValues(groups, Tag(step.id, roleOf(step, dice[i])))
      has     == {i \in DOMAIN dice : rank(i) <= Len(vals(i))}
  IN [id \in {dice[i].id : i \in has} |->
        LET i == CHOOSE k \in has : dice[k].id = id IN vals(i)[rank(i)]]

\* first pass, the crit logic of one step
stepSetsCrit(step, config, stepDiceValues) ==
  /\ step.isCrit
  /\ IF step.type = "daggerheart"
     THEN LET hopeDie == findDie(config.dice, "hope")
              fearDie == findDie(config.dice, "fear")
          IN /\ hopeDie # NoResult /\ fearDie # NoResult
             /\ Lookup(stepDiceValues, hopeDie.id) # Undefined
             /\ Lookup(stepDiceValues, fearDie.id) # Undefined
             /\ StrictEq(Lookup(stepDiceValues, hopeDie.id), Lookup(stepDiceValues, fearDie.id))
     ELSE \E i \in DOMAIN config.dice :
            StrictEq(Lookup(stepDiceValues, config.dice[i].id), config.dice[i].sides)

\* dice.filter(d => d.type === role).reduce((a, d) => a + (values[d.id] || 0), 0)
RECURSIVE roleSum(_, _, _)
roleSum(dice, role, stepDiceValues) ==
  IF dice = <<>> THEN 0
  ELSE roleSum(SubSeq(dice, 1, Len(dice) - 1), role, stepDiceValues)
       + (IF dice[Len(dice)].type = role
          THEN OrElse(Lookup(stepDiceValues, dice[Len(dice)].id), 0) ELSE 0)

\* second pass: the total computed beside resolveStepResult and the overrides
\* of the result (total and wasCrit of a summed standard step of a chain with
\* a crit; dhHope, dhFear and dhOutcome of a duality step)
overrideResult(step, config, stepDiceValues, totalModifier, chainHasCrit, result) ==
  LET rolls      == [i \in DOMAIN config.dice |-> OrElse(Lookup(stepDiceValues, config.dice[i].id), 0)]
      maxDiceSum == sumSides(config.dice)
      total      == Plus(Plus(maxDiceSum, sumRolls(rolls)), totalModifier)
      hopeSum    == roleSum(config.dice, "hope", stepDiceValues)
      fearSum    == roleSum(config.dice, "fear", stepDiceValues)
  IN IF step.type = "standard" /\ chainHasCrit /\ step.addToSum
     THEN [result EXCEPT !.total = total, !.wasCrit = TRUE]
     ELSE IF step.type = "daggerheart"
     THEN [result EXCEPT !.dhHope = hopeSum, !.dhFear = fearSum,
                         !.dhOutcome = IF hopeSum = fearSum /\ hopeSum > 0 /\ step.isCrit THEN "crit"
                                       ELSE IF hopeSum >= fearSum THEN "hope"
                                       ELSE "fear"]
     ELSE result

\* second pass, preset.steps.forEach: the results of the steps from position
\* i on, appended to calculatedResults
RECURSIVE secondPass(_, _, _, _)
secondPass(i, calculatedResults, stepValueMap, chainHasCrit) ==
  IF i > Len(preset) THEN calculatedResults
  ELSE LET step == preset[i]
       IN IF ~checkCondition(step, calculatedResults, variables)
          THEN secondPass(i + 1, Append(calculatedResults, createSkippedResult(step)),
                          stepValueMap, chainHasCrit)
          ELSE LET config         == configOf(stepConfigs, step.id)
                   stepDiceValues == stepValueMap[step.id]
                   statMod        == getStatModifierValue(characterStats, step.statModifier)
                   totalModifier  == Plus(config.baseModifier, statMod)
                   result         == resolveStepResult(step, stepDiceValues, config.dice,
                                                       totalModifier, step.formula, chainHasCrit)
               IN secondPass(i + 1,
                             Append(calculatedResults,
                                    overrideResult(step, config, stepDiceValues, totalModifier,
                                                   chainHasCrit, result)),
                             stepValueMap, chainHasCrit)

\* const includedResults = calculatedResults.filter(r => !r.skipped && r.addToSum);
\* const grandTotal = includedResults.reduce((sum, r) => sum + r.total, 0)
grandTotalOf(calculatedResults) ==
  LET includedResults == SelectSeq(calculatedResults, LAMBDA r : ~r.skipped /\ r.addToSum)
  IN sumRolls([k \in DOMAIN includedResults |-> includedResults[k].total])

\* first pass: stepValueMap[step.id] = stepDiceValues, the values of the last
\* step with that id
firstPass(groups) ==
  [id \in {preset[i].id : i \in DOMAIN preset} |->
     LET i == CHOOSE k \in DOMAIN preset :
                /\ preset[k].id = id
                /\ \A j \in DOMAIN preset : preset[j].id = id => j <= k
     IN stepDiceValuesOf(preset[i], configOf(stepConfigs, id), groups)]

\* first pass: some step sets chainHasCrit, judged on the values its own
\* iteration assigned
anyStepSetsCrit(groups) ==
  \E i \in DOMAIN preset :
    stepSetsCrit(preset[i], configOf(stepConfigs, preset[i].id),
                 stepDiceValuesOf(preset[i], configOf(stepConfigs, preset[i].id), groups))

\* the continuation of the await: processRollResults(result)
ProcessRollResults ==
  /\ mode = "simultaneous"
  /\ phase = "resolved"
  /\ \E calculatedResults \in {secondPass(1, <<>>, firstPass(diceResult.groups),
                                          anyStepSetsCrit(diceResult.groups))} :
        /\ results' = calculatedResults
        /\ isComplete' = TRUE
        /\ rollComplete' = [results    |-> calculatedResults,
                            grandTotal |-> grandTotalOf(calculatedResults)]
  /\ phase' = "complete"
  /\ UNCHANGED <<engineVars, mode, preset, variables, currentStepIndex, sceneDice,
                 activeDiceIds, pendingEval, failsafe, failsafeCount, nextId, chainHasCritState,
                 stepConfigs, request, diceResult>>

---------------------------------------------------------------------------
(* Specification of a chain execution *)

\* the value chain variable v has; variable u has none
ChainVariables == [id \in {"v"} |-> 5]

Init ==
  /\ EngineIdle
  /\ mode \in {"sequential", "simultaneous"}
  /\ \E n \in 1..MaxSteps : \E pick \in [1..n -> 1..6] : preset = Preset(pick)
  /\ variables = ChainVariables
  /\ phase = "mounted"
  /\ results = <<>> /\ isComplete = FALSE /\ currentStepIndex = 0
  /\ sceneDice = <<>> /\ activeDiceIds = <<>>
  /\ pendingEval = None /\ failsafe = None /\ failsafeCount = 0 /\ nextId = 0
  /\ chainHasCritState = FALSE
  /\ stepConfigs = <<>> /\ request = <<>> /\ diceResult = None
  /\ rollComplete = None

Next ==
  \/ StartRoll
  \/ EvaluateNextStep
  \/ RendererReports
  \/ FailsafeFires
  \/ ExecuteSimultaneousRoll
  \/ DicePlusAnswers
  \/ DicePlusTimesOut
  \/ ProcessRollResults

Spec == Init /\ [][Next]_vars


---------------------------------------------------------------------------
(* What a formula written as a list of terms means, read off the terms *)

TermCount(t) == IF t.hasCount THEN t.count ELSE 1
SignOf(t) == IF t.sign = "-" THEN -1 ELSE 1

\* one entry (the sides) per single die, in formula order
RECURSIVE TermDice(_)
TermDice(terms) ==
  IF terms = <<>> THEN <<>>
  ELSE IF Head(terms).kind = "dice"
       THEN [i \in 1..TermCount(Head(terms)) |-> Head(terms).sides] \o TermDice(Tail(terms))
       ELSE TermDice(Tail(terms))

RECURSIVE TermModifier(_)
TermModifier(terms) ==
  IF terms = <<>> THEN 0
  ELSE IF Head(terms).kind = "const"
       THEN SignOf(Head(terms)) * Head(terms).value + TermModifier(Tail(terms))
       ELSE TermModifier(Tail(terms))

\* the dice of a formula other than its first two d12
DiceBeyondBase(sides) ==
  LET twelves == {i \in 1..Len(sides) : sides[i] = 12}
      base    == {i \in twelves : Cardinality({j \in twelves : j < i}) < 2}
  IN SelectSeq([i \in 1..Len(sides) |-> <<i, sides[i]>>], LAMBDA p : p[1] \notin base)

AllDigits(s) == \A i \in 1..Len(s) : s[i] \in Digit

\* text of the form [N]dS[+M] or [N]dS[-M]
IsSimpleText(s) ==
  \E k \in 1..Len(s) :
    /\ s[k] \in {"d", "D"}
    /\ AllDigits(SubSeq(s, 1, k - 1))
    /\ \E j \in (k + 1)..Len(s) :
         /\ AllDigits(SubSeq(s, k + 1, j))
         /\ \/ j = Len(s)
            \/ /\ j + 1 < Len(s)
               /\ s[j + 1] \in {"+", "-"}
               /\ AllDigits(SubSeq(s, j + 2, Len(s)))

\* text that is an integer, with or without a sign
IsIntegerText(s) ==
  /\ s # <<>>
  /\ LET u == IF s[1] \in {"+", "-"} THEN Tail(s) ELSE s
     IN u # <<>> /\ AllDigits(u)

\* the input is [N]dS, [N]dS+M or [N]dS-M, written from its terms
SimpleShape ==
  /\ input.kind = "terms"
  /\ ~input.lead
  /\ Len(input.terms) \in {1, 2}
  /\ input.terms[1].kind = "dice"
  /\ input.terms[1].sign = "+"
  /\ Len(input.terms) = 2 => input.terms[2].kind = "const"

\* the input is one number, written from its term
IntegerShape ==
  /\ input.kind = "terms"
  /\ Len(input.terms) = 1
  /\ input.terms[1].kind = "const"

---------------------------------------------------------------------------
(* Claims about the parsers and the planner (SpecParser) *)

\* C5: parseFormula on [N]dS[+M or -M] returns count N (1 when N is
\* omitted), sides S and the signed modifier M (0 when omitted); on a bare
\* integer it returns count 0, sides 0 and the integer as modifier.
C5_ParseFormulaShapes ==
  call = "parseFormula" =>
    /\ SimpleShape =>
         ret = [count    |-> TermCount(input.terms[1]),
                sides    |-> input.terms[1].sides,
                modifier |-> TermModifier(input.terms)]
    /\ IntegerShape =>
         ret = [count |-> 0, sides |-> 0, modifier |-> TermModifier(input.terms)]

C5_Witness ==
  /\ call = "parseFormula"
  /\ SimpleShape
  /\ input.formula = <<"2", "d", "1", "2", "-", "3">>
  /\ ret = [count |-> 2, sides |-> 12, modifier |-> -3]

\* C6: parseFormula on a text that is neither [N]dS[+/-M] nor a bare integer
\* returns the fallback count 1, sides 20, modifier 0.
C6_FallbackOnOtherText ==
  (/\ call = "parseFormula"
   /\ ~IsSimpleText(input.formula)
   /\ ~IsIntegerText(input.formula))
  => ret = Fallback

\* C7: parseFormulaAdvanced turns every dice term [N]dS into N groups of
\* count 1 and sides S, in formula order, and returns as modifier the sum of
\* the signed non-dice terms.
C7_AdvancedTerms ==
  (call = "parseFormulaAdvanced" /\ input.kind = "terms") =>
    LET dice == TermDice(input.terms)
    IN ret = [diceGroups |-> [i \in 1..Len(dice) |-> [count |-> 1, sides |-> dice[i]]],
              modifier   |-> TermModifier(input.terms)]

C7_Witness ==
  /\ call = "parseFormulaAdvanced"
  /\ input.formula = <<"2", "d", "1", "2", "+", "d", "6", "+", "d", "4", "+", "5">>
  /\ ret = [diceGroups |-> << [count |-> 1, sides |-> 12], [count |-> 1, sides |-> 12],
                              [count |-> 1, sides |-> 6], [count |-> 1, sides |-> 4] >>,
            modifier |-> 5]

\* C8: for a duality step getStepDiceConfig returns one hope d12, one fear
\* d12, then one standard die per die of the formula other than the first
\* two d12, and the signed flat modifier of the formula as baseModifier.
C8_DualityPlan ==
  call = "getStepDiceConfig daggerheart" =>
    /\ Len(ret.dice) >= 2
    /\ [sides |-> ret.dice[1].sides, type |-> ret.dice[1].type] = [sides |-> 12, type |-> "hope"]
    /\ [sides |-> ret.dice[2].sides, type |-> ret.dice[2].type] = [sides |-> 12, type |-> "fear"]
    /\ \A i \in 3..Len(ret.dice) : ret.dice[i].type = "standard"
    /\ \A i, j \in 1..Len(ret.dice) : ret.dice[i].id = ret.dice[j].id => i = j
    /\ input.kind = "terms" =>
         LET extra == DiceBeyondBase(TermDice(input.terms))
         IN /\ Len(ret.dice) = 2 + Len(extra)
            /\ \A i \in 1..Len(extra) : ret.dice[2 + i].sides = extra[i][2]
            /\ ret.baseModifier = TermModifier(input.terms)

C8_Witness ==
  /\ call = "getStepDiceConfig daggerheart"
  /\ input.formula = <<"d", "6", "+", "2", "d", "1", "2", "+", "d", "1", "2", "-", "3">>
  /\ Len(ret.dice) = 4
  /\ ret.dice[3].sides = 6
  /\ ret.dice[4].sides = 12
  /\ ret.baseModifier = -3

---------------------------------------------------------------------------
(* Claims about the step resolver *)

\* f[x] summed over the members x of S
RECURSIVE SumOver(_, _)
SumOver(f, S) ==
  IF S = {} THEN 0
  ELSE LET x == CHOOSE y \in S : TRUE IN f[x] + SumOver(f, S \ {x})

\* every die of the call came with a value
AllValuesPresent ==
  \A i \in 1..Len(input.diceConfig) : input.diceConfig[i].id \in DOMAIN input.diceValues

RolledSum ==
  SumOver([i \in 1..Len(input.diceConfig) |-> input.diceValues[input.diceConfig[i].id]],
          1..Len(input.diceConfig))

SidesSum ==
  SumOver([i \in 1..Len(input.diceConfig) |-> input.diceConfig[i].sides],
          1..Len(input.diceConfig))

\* C3: a standard step resolved with all die values present is critical
\* exactly when forceCrit is passed or the step is flagged isCrit; a critical
\* total is the sum of the dice's sides plus the rolled values plus the
\* modifier, any other total is the rolled values plus the modifier; with no
\* dice the total is the modifier, critical or not.
C3_StandardTotal ==
  (call = "resolveStepResult standard" /\ AllValuesPresent) =>
    /\ ret.wasCrit = (input.forceCrit \/ input.step.isCrit)
    /\ ret.wasCrit => ret.total = SidesSum + RolledSum + input.totalModifier
    /\ ~ret.wasCrit => ret.total = RolledSum + input.totalModifier
    /\ Len(input.diceConfig) = 0 => ret.total = input.totalModifier
    /\ ret.skipped = FALSE

\* the forced critical d20 showing 20 with modifier 5 totals 45
C3_Witness ==
  /\ call = "resolveStepResult standard"
  /\ Len(input.diceConfig) = 1
  /\ input.diceConfig[1].sides = 20
  /\ AllValuesPresent
  /\ input.diceValues[input.diceConfig[1].id] = 20
  /\ input.totalModifier = 5
  /\ input.forceCrit /\ ~input.step.isCrit
  /\ ret.wasCrit
  /\ ret.total = 45

\* the hope die and the fear die of the call both came with a value
DualityValuesPresent ==
  /\ \E i \in 1..Len(input.diceConfig) : input.diceConfig[i].type = "hope"
  /\ \E i \in 1..Len(input.diceConfig) : input.diceConfig[i].type = "fear"
  /\ AllValuesPresent

FirstOfRole(role) ==
  CHOOSE i \in 1..Len(input.diceConfig) :
    /\ input.diceConfig[i].type = role
    /\ \A j \in 1..(i - 1) : input.diceConfig[j].type # role

\* C4: a duality step with hope value h and fear value f has outcome crit
\* when h = f, hope when h > f and fear when h < f; it is marked wasCrit
\* exactly when the outcome is crit and reports h as dhHope and f as dhFear.
C4_DualityOutcome ==
  (call = "resolveStepResult daggerheart" /\ DualityValuesPresent) =>
    LET h == input.diceValues[input.diceConfig[FirstOfRole("hope")].id]
        f == input.diceValues[input.diceConfig[FirstOfRole("fear")].id]
    IN /\ h = f => ret.dhOutcome = "crit"
       /\ h > f => ret.dhOutcome = "hope"
       /\ h < f => ret.dhOutcome = "fear"
       /\ ret.wasCrit = (ret.dhOutcome = "crit")
       /\ ret.dhHope = h
       /\ ret.dhFear = f

\* hope 8 against fear 8 is a critical outcome
C4_Witness ==
  /\ call = "resolveStepResult daggerheart"
  /\ DualityValuesPresent
  /\ ret.dhHope = 8 /\ ret.dhFear = 8
  /\ ret.dhOutcome = "crit"
  /\ ret.wasCrit

---------------------------------------------------------------------------
(* Claims about the condition evaluator *)

NumericOperators == {">", "<", ">=", "<=", "=="}

\* the value a variable currently has, 0 when it has none
ValueOfVariable(id) ==
  IF id \in DOMAIN input.variableValues THEN input.variableValues[id] ELSE 0

\* the results so far that belong to the step the condition refers to
Referenced ==
  {i \in 1..Len(input.previousResults) :
     input.previousResults[i].stepId = input.step.condition.dependsOnStepId}

ChecksVariable == input.step.condition.checkSource = "variable"

\* the condition has something to look at: the variable it names, or a
\* non-skipped result of the step it refers to
SourceAvailable ==
  IF ChecksVariable THEN input.step.condition.checkVariableId # ""
  ELSE /\ Referenced # {}
       /\ \A i \in Referenced : ~input.previousResults[i].skipped

SourceValue ==
  IF ChecksVariable THEN ValueOfVariable(input.step.condition.checkVariableId)
  ELSE input.previousResults[CHOOSE i \in Referenced : TRUE].total

\* a threshold taken from a variable names that variable
ThresholdNamed ==
  input.step.condition.compareTarget = "variable" => input.step.condition.variableId # ""

ThresholdValue ==
  IF input.step.condition.compareTarget = "variable"
  THEN ValueOfVariable(input.step.condition.variableId)
  ELSE IF input.step.condition.value = Undefined THEN 0 ELSE input.step.condition.value

Holds(operator, a, b) ==
  CASE operator = ">"  -> a > b
    [] operator = "<"  -> a < b
    [] operator = ">=" -> a >= b
    [] operator = "<=" -> a <= b
    [] operator = "==" -> a = b

ReferencedOutcome ==
  input.previousResults[CHOOSE i \in Referenced : TRUE].dhOutcome

\* C10: is_hope, is_fear and is_crit decide on the duality outcome of the
\* referenced non-skipped step alone, whatever the threshold: is_hope holds
\* for outcome hope or crit, is_fear for fear, is_crit for crit; they are
\* false when the result has no duality outcome and false for every
\* condition whose source is a variable.
C10_DualityOperators ==
  ( /\ call = "checkCondition"
    /\ input.step.condition # NoCondition
    /\ input.step.condition.operator \in DhOperators )
  => /\ ChecksVariable => ret = FALSE
     /\ (~ChecksVariable /\ SourceAvailable) =>
          /\ input.step.condition.operator = "is_hope"
               => ret = (ReferencedOutcome \in {"hope", "crit"})
          /\ input.step.condition.operator = "is_fear"
               => ret = (ReferencedOutcome = "fear")
          /\ input.step.condition.operator = "is_crit"
               => ret = (ReferencedOutcome = "crit")
          /\ ReferencedOutcome = "none" => ret = FALSE

\* is_hope on a critical result holds although a threshold of 10 equals the
\* total
C10_Witness ==
  /\ call = "checkCondition"
  /\ input.step.condition # NoCondition
  /\ input.step.condition.operator = "is_hope"
  /\ ~ChecksVariable
  /\ SourceAvailable
  /\ ReferencedOutcome = "crit"
  /\ input.step.condition.value = 10
  /\ ret = TRUE

---------------------------------------------------------------------------
(* Claims about a chain execution *)

\* the results the ROLL_COMPLETE message carries
Reported == rollComplete.results

\* the reported results that count: not skipped and added to the sum
Counted == {i \in DOMAIN Reported : ~Reported[i].skipped /\ Reported[i].addToSum}

\* C1: in both roll modes the grand total sent with ROLL_COMPLETE is the sum
\* of the totals of exactly the results that are not skipped and have
\* addToSum set; no other result contributes, whatever its total is.
C1_GrandTotal ==
  rollComplete # None =>
    rollComplete.grandTotal =
      IF \E i \in Counted : ~IsNumber(Reported[i].total) THEN NaN
      ELSE SumOver([i \in DOMAIN Reported |-> Reported[i].total], Counted)

\* a completed simultaneous roll with a skipped step and a step that is not
\* summed although its total is not 0
C1_Witness ==
  /\ rollComplete # None
  /\ mode = "simultaneous"
  /\ \E i \in DOMAIN Reported : Reported[i].skipped
  /\ \E i \in DOMAIN Reported :
       ~Reported[i].skipped /\ ~Reported[i].addToSum /\ IsNumber(Reported[i].total)
       /\ Reported[i].total > 0
  /\ Counted # {}
  /\ IsNumber(rollComplete.grandTotal)
  /\ rollComplete.grandTotal > 0

\* the step of the preset a result belongs to
StepOf(r) == preset[CHOOSE k \in DOMAIN preset : preset[k].id = r.stepId]

RefersToStep(step) ==
  step.condition # NoCondition /\ step.condition.checkSource # "variable"

\* among the results before position i of list, those of the step that the
\* step at position i refers to
ReferencedBefore(list, i) ==
  {j \in 1..(i - 1) : list[j].stepId = StepOf(list[i]).condition.dependsOnStepId}

Earliest(S) == CHOOSE j \in S : \A k \in S : j <= k

\* the result at position i is that of a step referring to a step whose
\* result is missing before it, or is skipped
SourceSkipped(list, i) ==
  /\ RefersToStep(StepOf(list[i]))
  /\ \/ ReferencedBefore(list, i) = {}
     \/ list[Earliest(ReferencedBefore(list, i))].skipped

\* C2: in both roll modes, a step whose step-result condition refers to a
\* step that was skipped, or that has no result yet, is skipped itself,
\* whatever the operator and the threshold are; so skipping carries along
\* every chain of such references.
C2_SkipPropagation ==
  rollComplete # None =>
    \A i \in DOMAIN Reported : SourceSkipped(Reported, i) => Reported[i].skipped

\* the dice the planner gives a step, and the modifier of its formula
PlannedDice(step) == getStepDiceConfig(step, 0).dice

PlannedModifier(step) ==
  Plus(getStepDiceConfig(step, 0).baseModifier,
       getStatModifierValue(characterStats, step.statModifier))

\* the result r is that of an executed step with crit enabled that rolled a
\* critical: a standard die on its maximum face, or matching duality dice
RolledCrit(r) ==
  /\ ~r.skipped
  /\ StepOf(r).isCrit
  /\ IF r.type = "daggerheart"
     THEN IsNumber(r.dhHope) /\ r.dhHope = r.dhFear
     ELSE \E k \in DOMAIN r.rolls \cap DOMAIN PlannedDice(StepOf(r)) :
            r.rolls[k] = PlannedDice(StepOf(r))[k].sides

\* the result r has the critical total and is marked as critical
CritMath(r) ==
  /\ r.wasCrit
  /\ r.total = Plus(Plus(sumSides(PlannedDice(StepOf(r))), sumRolls(r.rolls)),
                    PlannedModifier(StepOf(r)))

\* the result r is that of a standard step that ran, is summed and has dice
SummedStandard(r) ==
  ~r.skipped /\ r.type = "standard" /\ r.addToSum /\ Len(r.rolls) > 0

\* C11: in a chain execution of either roll mode, once an executed step has
\* rolled a critical, every later standard step that ran, is summed and has
\* at least one die is resolved with the critical total (sides + rolls +
\* modifier) and wasCrit, even if it has no crit flag and rolled no maximum.
C11_CritPropagation ==
  rollComplete # None =>
    \A i, j \in DOMAIN Reported :
      (i < j /\ RolledCrit(Reported[i]) /\ SummedStandard(Reported[j]))
        => CritMath(Reported[j])

---------------------------------------------------------------------------
(* Specification of a chain execution with its scheduling: effects run,    *)
(* timers fire, the promise of DicePlus.roll settles by its own timeout    *)
(* and its continuation runs; nothing is assumed of the dice renderer or   *)
(* of the answer of Dice+                                                  *)

\* the timers and continuations that compute a step of the chain:
\* evaluateNextStep, the failsafe and processRollResults come with the
\* parsing and resolving of a step, executeSimultaneousRoll with the parsing
\* of all steps
Computing ==
  \/ EvaluateNextStep
  \/ FailsafeFires
  \/ ExecuteSimultaneousRoll
  \/ ProcessRollResults

\* ENABLED <<Computing>>_vars written out: the guards of the four actions,
\* each of which changes the state whenever its guard holds
EnabledComputing ==
  \/ mode = "sequential" /\ pendingEval # None
  \/ mode = "sequential" /\ failsafe # None /\ failsafeCount < MaxFailsafes
  \/ mode = "simultaneous" /\ phase \in {"mounted", "resolved"}

\* weak fairness of the effect that starts the roll and of the timeout of
\* Dice+, and weak fairness of Computing in its expanded form
\* []<>~ENABLED <<A>>_vars \/ []<><<A>>_vars
Fairness ==
  /\ WF_vars(StartRoll)
  /\ WF_vars(DicePlusTimesOut)
  /\ ([]<>(~EnabledComputing) \/ []<><<Computing>>_vars)

SpecLive == Init /\ [][Next]_vars /\ Fairness

---------------------------------------------------------------------------
(* Claims about missing die values, totality and determinism of the engine *)

\* the value the i-th die of the call came with, 0 if it came with none
ValueOrZero(i) ==
  IF input.diceConfig[i].id \in DOMAIN input.diceValues
  THEN input.diceValues[input.diceConfig[i].id] ELSE 0

PresentSum ==
  SumOver([i \in 1..Len(input.diceConfig) |-> ValueOrZero(i)], 1..Len(input.diceConfig))

\* the value of the first die of the role, 0 if the call has no such die or
\* the die came without a value
RoleValueOrZero(role) ==
  IF \E i \in 1..Len(input.diceConfig) : input.diceConfig[i].type = role
  THEN ValueOrZero(FirstOfRole(role)) ELSE 0

\* C13: a die whose value is missing contributes 0: the total of a standard
\* step is a number, the sum of the values that are present plus the
\* modifier (plus the sides of the dice when the step is critical), and a
\* duality step takes a missing hope or fear value as 0 in its total and in
\* its outcome.
C13_MissingValueIsZero ==
  /\ call = "resolveStepResult standard" =>
        /\ IsNumber(ret.total)
        /\ ret.total = (IF ret.wasCrit /\ Len(input.diceConfig) > 0 THEN SidesSum ELSE 0)
                         + PresentSum + input.totalModifier
  /\ call = "resolveStepResult daggerheart" =>
        LET h == RoleValueOrZero("hope")
            f == RoleValueOrZero("fear")
        IN /\ ret.total = h + f + input.totalModifier
           /\ ret.dhOutcome = (IF h = f THEN "crit" ELSE IF h > f THEN "hope" ELSE "fear")

\* the fields of a StepResult
ResultFields ==
  {"stepId", "label", "total", "rolls", "formula", "type", "damageType", "skipped",
   "dhHope", "dhFear", "dhOutcome", "addToSum", "wasCrit"}

IsPlan(config) ==
  /\ DOMAIN config = {"baseModifier", "dice"}
  /\ IsNumber(config.baseModifier)
  /\ \A i \in DOMAIN config.dice :
       /\ IsNumber(config.dice[i].sides)
       /\ config.dice[i].type \in {"hope", "fear", "standard"}

---------------------------------------------------------------------------
(* Claims about the stat resolver *)

\* what the sheet stores for the reference: the entry of the map of the
\* namespace, or the value of the custom stat of that id; Undefined if unset
Stored(stats, key) ==
  CASE key.type = "dnd_attr"  -> Lookup(stats.dndAttributes, key.id)
    [] key.type = "dnd_skill" -> Lookup(stats.dndSkills, key.id)
    [] key.type = "dh"        -> Lookup(stats.daggerheartStats, key.id)
    [] key.type = "custom"    ->
         IF \E i \in DOMAIN stats.customStats : stats.customStats[i].id = key.id
         THEN stats.customStats[CHOOSE i \in DOMAIN stats.customStats :
                                  stats.customStats[i].id = key.id].value
         ELSE Undefined
    [] OTHER                  -> Undefined

\* C15: for a reference into the attribute namespace getStatModifierValue
\* returns floor((score - 10) / 2) of the stored score, whatever it is, an
\* unset attribute counting as 10; for the skill, trait and custom
\* namespaces it returns the stored value, 0 if unset; for an unknown
\* namespace or a missing reference it returns 0.
C15_StatModifier ==
  call = "getStatModifierValue" =>
    LET stored == IF input.key = NoKey THEN Undefined ELSE Stored(input.stats, input.key)
    IN ret = IF input.key = NoKey THEN 0
             ELSE IF input.key.type = "dnd_attr"
                  THEN ((IF stored = Undefined THEN 10 ELSE stored) - 10) \div 2
             ELSE IF input.key.type \in {"dnd_skill", "dh", "custom"}
                  THEN (IF stored = Undefined THEN 0 ELSE stored)
             ELSE 0

---------------------------------------------------------------------------
(* Claims about repeated resolution *)

---------------------------------------------------------------------------
(* Claims about the results of a chain execution *)

\* the result r is the synthesized skipped result of its step
IsSkippedResultOf(r, step) ==
  /\ r.skipped /\ r.total = 0 /\ r.rolls = <<>> /\ ~r.wasCrit
  /\ r.stepId = step.id /\ r.label = step.label /\ r.formula = step.formula
  /\ r.type = step.type /\ r.damageType = step.damageType
  /\ r.addToSum = step.addToSum

\* in the list, a skipped result is the synthesized result of its step, and a
\* step that has a skipped result has no result made by resolveStepResult
SkippedNeverResolved(list) ==
  \A i \in DOMAIN list :
    list[i].skipped =>
      /\ IsSkippedResultOf(list[i], StepOf(list[i]))
      /\ \A j \in DOMAIN list : list[j].stepId = list[i].stepId => list[j].skipped

\* C17: a step whose condition is false never reaches resolveStepResult: its
\* result is the skipped result (total 0, no rolls, skipped, not critical)
\* with stepId, label, formula, type, damageType and addToSum of the step.
C17_SkippedResult ==
  /\ SkippedNeverResolved(results)
  /\ rollComplete # None => SkippedNeverResolved(Reported)

\* C18: when a chain execution completes, in either roll mode, the reported
\* list holds exactly one result per step in the order of the steps, and the
\* step at each position was skipped or run according to its condition on
\* the final results of the steps before it.
C18_OneResultPerStep ==
  rollComplete # None =>
    /\ Len(Reported) = Len(preset)
    /\ \A i \in DOMAIN Reported \cap DOMAIN preset :
         /\ Reported[i].stepId = preset[i].id
         /\ Reported[i].skipped =
              ~checkCondition(preset[i], SubSeq(Reported, 1, i - 1), variables)

---------------------------------------------------------------------------
(* Specification of the resolver on planned duality rolls: the hope die, the
   fear die and the extra standard dice of the formula *)

\* the dice of a planned duality step: the two d12 of the roles, then up to
\* MaxDice extra standard dice
plannedDualityKinds(extra) ==
  <<[sides |-> 12, type |-> "hope"], [sides |-> 12, type |-> "fear"]>> \o extra

InitDuality ==
  /\ \E n \in 0..MaxDice :
       \E extra \in [1..n -> DieKinds("standard")] :
         \E vals \in DieValues(plannedDualityKinds(extra)), m \in Modifiers :
           \E fc, isCrit, addToSum \in BOOLEAN :
             input = ResolveInput("daggerheart", plannedDualityKinds(extra), vals, m,
                                  fc, isCrit, addToSum)
  /\ call = "none"
  /\ ret = <<>>
  /\ ChainIdle

SpecDuality == InitDuality /\ [][CallResolveDuality]_vars

\* the rolled values of the standard dice of the call
ExtraSum ==
  SumOver([i \in 1..Len(input.diceConfig) |->
             IF input.diceConfig[i].type = "standard" THEN ValueOrZero(i) ELSE 0],
          1..Len(input.diceConfig))

\* C19: the total of a resolved duality step is hope + fear + the modifier
\* plus the rolled values of the extra standard dice of the formula; without
\* extra dice it is hope + fear + the modifier.
C19_DualityTotal ==
  (call = "resolveStepResult daggerheart" /\ AllValuesPresent) =>
    ret.total = RoleValueOrZero("hope") + RoleValueOrZero("fear")
                  + input.totalModifier + ExtraSum

---------------------------------------------------------------------------
(* Claims about the duality results of a chain *)

\* wasCrit says the outcome is crit, and the outcome is crit exactly when the
\* hope value equals the fear value
DualityCritAgrees(r) ==
  /\ r.wasCrit = (r.dhOutcome = "crit")
  /\ (r.dhOutcome = "crit") = (r.dhHope = r.dhFear)

DualityResultsAgree(list) ==
  \A i \in DOMAIN list :
    (list[i].type = "daggerheart" /\ ~list[i].skipped) => DualityCritAgrees(list[i])

\* C20: in every result of a duality step that a chain execution produces, in
\* either roll mode, wasCrit is true exactly when dhOutcome is crit, and
\* dhOutcome is crit exactly when the hope value equals the fear value.
C20_DualityCrit ==
  /\ DualityResultsAgree(results)
  /\ rollComplete # None => DualityResultsAgree(Reported)

---------------------------------------------------------------------------
(* Specification of the dice request of the simultaneous roller: one duality
   step with one formula *)

\* the body of preset.steps.forEach for a duality step with the formula
CallPrepareDuality ==
  /\ call = "none"
  /\ call' = "prepareStep daggerheart"
  /\ ret' = prepareStep(RollStep("s", "daggerheart", input.formula, FALSE, TRUE, NoCondition), 0)
  /\ UNCHANGED <<input, chainVars>>

SpecRequest == InitParser /\ [][CallPrepareDuality]_vars

\* the dice of the role among the dice
DiceOfRole(dice, role) == {i \in DOMAIN dice : dice[i].type = role}

\* one hope d12, one fear d12, every other die standard
OneRolePair(dice) ==
  /\ Cardinality(DiceOfRole(dice, "hope")) = 1
  /\ Cardinality(DiceOfRole(dice, "fear")) = 1
  /\ \A i \in DOMAIN dice :
       /\ dice[i].type \in {"hope", "fear"} => dice[i].sides = 12
       /\ dice[i].type \in {"hope", "fear", "standard"}

\* C21: in simultaneous mode the dice requested for a duality step, which
\* are the dice it is resolved with, are those of the planner for every
\* formula: exactly one hope d12, exactly one fear d12 and standard extras.
C21_RequestedDualityDice ==
  call = "prepareStep daggerheart" =>
    /\ OneRolePair(ret.config.dice)
    /\ LET planned == getStepDiceConfig(PlanStep("daggerheart", input.formula), 0).dice
       IN /\ Len(ret.config.dice) = Len(planned)
          /\ \A i \in DOMAIN planned \cap DOMAIN ret.config.dice :
               /\ ret.config.dice[i].sides = planned[i].sides
               /\ ret.config.dice[i].type = planned[i].type

---------------------------------------------------------------------------
(* Claims about the chain-wide crit flag *)

\* the result r is that of a standard step that ran, is not summed and has
\* no crit flag of its own
UnsummedPlain(r) ==
  ~r.skipped /\ r.type = "standard" /\ ~r.addToSum /\ ~StepOf(r).isCrit

\* the result r has the plain total and is not marked as critical
PlainMath(r) ==
  /\ ~r.wasCrit
  /\ r.total = Plus(sumRolls(r.rolls), PlannedModifier(StepOf(r)))

\* the result r of a duality step has the total and the mark of its own dice
DualityOwnMath(r) ==
  /\ r.total = Plus(Plus(r.rolls[1], r.rolls[2]), PlannedModifier(StepOf(r)))
  /\ r.wasCrit = StrictEq(r.rolls[1], r.rolls[2])

\* C22: the chain-wide crit flag changes only summed standard steps: a
\* standard step that ran, is not summed and has no crit flag of its own has
\* the total rolls + modifier and wasCrit false, whether or not the chain has
\* a crit, and a duality step has the total and wasCrit of its own dice.
C22_CritFlagScope ==
  rollComplete # None =>
    \A j \in DOMAIN Reported :
      /\ UnsummedPlain(Reported[j]) => PlainMath(Reported[j])
      /\ (Reported[j].type = "daggerheart" /\ ~Reported[j].skipped)
           => DualityOwnMath(Reported[j])

---------------------------------------------------------------------------
(* The breakdown of the grand total by damage type *)

\* r.damageType === 'none' ? 'typeless' : r.damageType, without the
\* substitution
damageLabel_Raw(damageType) == damageType

\* r.damageType === 'none' ? 'typeless' : r.damageType
damageLabel(damageType) == IF damageType = "none" THEN "typeless" ELSE damageType

\* groups[type] = (groups[type] || 0) + r.total; the keys of groups keep the
\* order in which they were first written
addToGroup(groups, type, total) ==
  IF \E k \in DOMAIN groups : groups[k].type = type
  THEN [k \in DOMAIN groups |->
          IF groups[k].type = type
          THEN [type |-> type, value |-> Plus(OrElse(groups[k].value, 0), total)]
          ELSE groups[k]]
  ELSE Append(groups, [type |-> type, value |-> Plus(0, total)])

\* includedResults.forEach(r => ...): the entries of groups
RECURSIVE breakdownGroups(_)
breakdownGroups(resArray) ==
  IF resArray = <<>> THEN <<>>
  ELSE LET r    == resArray[Len(resArray)]
           rest == breakdownGroups(SubSeq(resArray, 1, Len(resArray) - 1))
       IN IF ~r.skipped /\ r.addToSum
          THEN addToGroup(rest, damageLabel(r.damageType), r.total)
          ELSE rest

\* breakdownParts.join(' + ') with breakdownParts[k] = `${value} ${type}`; a
\* text is the sequence of its pieces, a number standing for its digits
RECURSIVE joinParts(_)
joinParts(groups) ==
  IF groups = <<>> THEN <<>>
  ELSE (IF Len(groups) > 1
        THEN joinParts(SubSeq(groups, 1, Len(groups) - 1)) \o <<" + ">>
        ELSE <<>>)
       \o <<groups[Len(groups)].value, " ", groups[Len(groups)].type>>

\* breakdownParts.length > 0 ? `(${breakdownParts.join(' + ')})` : ''
breakdownText(groups) ==
  IF Len(groups) > 0 THEN <<"(">> \o joinParts(groups) \o <<")">> ELSE <<>>

\* the results a breakdown is computed from: up to MaxSteps results, each
\* with a total (NaN for a step resolved without a die value), a damage
\* type and the two flags
BreakdownResult(total, damageType, skipped, addToSum) ==
  [total |-> total, damageType |-> damageType, skipped |-> skipped, addToSum |-> addToSum]

BreakdownResults ==
  {BreakdownResult(t, dt, sk, ats) :
     t \in {NaN, 0, 3}, dt \in {"none", "fire"}, sk \in BOOLEAN, ats \in BOOLEAN}

InitBreakdown ==
  /\ \E n \in 0..MaxSteps : \E resArray \in [1..n -> BreakdownResults] :
       input = [resArray |-> resArray]
  /\ call = "none"
  /\ ret = <<>>
  /\ ChainIdle

CallCalculateGrandTotal ==
  /\ call = "none"
  /\ call' = "calculateGrandTotalFromResults"
  /\ \E groups \in {breakdownGroups(input.resArray)} :
       ret' = [grandTotal |-> calculateGrandTotalFromResults(input.resArray),
               groups     |-> groups,
               breakdown  |-> breakdownText(groups),
               count      |-> Len(SelectSeq(input.resArray,
                                            LAMBDA r : ~r.skipped /\ r.addToSum))]
  /\ UNCHANGED <<input, chainVars>>

SpecBreakdown == InitBreakdown /\ [][CallCalculateGrandTotal]_vars

---------------------------------------------------------------------------
(* Claims about the breakdown *)

\* the positions of the results counted in the grand total
Included == {i \in DOMAIN input.resArray :
              ~input.resArray[i].skipped /\ input.resArray[i].addToSum}

\* the category a counted result is shown under
CategoryOf(i) ==
  IF input.resArray[i].damageType = "none" THEN "typeless"
  ELSE input.resArray[i].damageType

\* f[x] added up over the members x of S, NaN as soon as one of them is NaN
RECURSIVE PlusOver(_, _)
PlusOver(f, S) ==
  IF S = {} THEN 0
  ELSE LET x == CHOOSE y \in S : TRUE IN Plus(f[x], PlusOver(f, S \ {x}))

\* the groups are the categories of the counted results, one group each,
\* every group with the sum of the totals of its results, and the values of
\* the groups add up to the grand total
GroupsCoverIncluded ==
  /\ {ret.groups[k].type : k \in DOMAIN ret.groups} = {CategoryOf(i) : i \in Included}
  /\ \A k, l \in DOMAIN ret.groups : ret.groups[k].type = ret.groups[l].type => k = l
  /\ \A k \in DOMAIN ret.groups :
       ret.groups[k].value =
         PlusOver([i \in Included |-> input.resArray[i].total],
                  {i \in Included : CategoryOf(i) = ret.groups[k].type})
  /\ PlusOver([k \in DOMAIN ret.groups |-> ret.groups[k].value], DOMAIN ret.groups)
       = ret.grandTotal
  /\ ret.grandTotal = PlusOver([i \in Included |-> input.resArray[i].total], Included)

\* from position offset + 1 on, the text reads "N category + M category":
\* value, blank and category of each group, " + " between two groups
PartsAt(text, offset) ==
  \A k \in DOMAIN ret.groups :
    /\ text[offset + 4 * k - 3] = ret.groups[k].value
    /\ text[offset + 4 * k - 2] = " "
    /\ text[offset + 4 * k - 1] = ret.groups[k].type
    /\ k < Len(ret.groups) => text[offset + 4 * k] = " + "

---------------------------------------------------------------------------
(* Claims about the fallback values *)

\* the result r was computed from a value in 1..sides for every die of its
\* step: a roll per die of a standard step, hope and fear of a duality step,
\* and a total that is a number
ComputedFromValues(r) ==
  LET dice == configOf(stepConfigs, r.stepId).dice
  IN /\ IsNumber(r.total)
     /\ IF r.type = "daggerheart"
        THEN \A k \in DOMAIN r.rolls : IsNumber(r.rolls[k]) /\ r.rolls[k] >= 1
        ELSE /\ Len(r.rolls) = Len(dice)
             /\ \A k \in DOMAIN r.rolls :
                  IsNumber(r.rolls[k]) /\ r.rolls[k] \in 1..dice[k].sides

\* C24: when Dice+ times out or the request cannot be sent, DicePlus.roll
\* resolves with its fallback result, and in simultaneous mode every die of
\* every executed step has a value in 1..sides from which the total and the
\* outcome of the step are computed.
C24_FallbackValues ==
  (mode = "simultaneous" /\ phase = "complete" /\ diceResult = mockResult) =>
    \A i \in DOMAIN results : ~results[i].skipped => ComputedFromValues(results[i])

---------------------------------------------------------------------------
(* Specification of the execution of chains with conditions on the step
   itself, on a later step and on a step the chain does not have *)

\* the steps that can stand at position i of such a preset
RefStepsAt(i) ==
  LET id == StepIds[i]
      on(stepId, op, val) == RollCondition("step_result", stepId, "", op, "value", val, "")
  IN << RollStep(id, "standard", D20, TRUE, TRUE, NoCondition),
       RollStep(id, "daggerheart", TwoD12, FALSE, TRUE, NoCondition),
       RollStep(id, "standard", D20, FALSE, TRUE, on(id, ">=", 0)),
       RollStep(id, "standard", D20, FALSE, TRUE, on(id, "is_crit", Undefined)),
       RollStep(id, "standard", D6Plus2, FALSE, TRUE, on(StepIds[i + 1], "is_hope", Undefined)),
       RollStep(id, "standard", D6Plus2, FALSE, TRUE, on(StepIds[i + 1], "<=", 100)),
       RollStep(id, "standard", D20, FALSE, TRUE, on("Z", "<", 100)),
       RollStep(id, "standard", D20, FALSE, TRUE, on("Z", "==", 0)) >>

RefPreset(pick) == [i \in DOMAIN pick |-> RefStepsAt(i)[pick[i]]]

InitRefs ==
  /\ EngineIdle
  /\ mode \in {"sequential", "simultaneous"}
  /\ \E n \in 1..MaxSteps : \E pick \in [1..n -> 1..8] : preset = RefPreset(pick)
  /\ variables = ChainVariables
  /\ phase = "mounted"
  /\ results = <<>> /\ isComplete = FALSE /\ currentStepIndex = 0
  /\ sceneDice = <<>> /\ activeDiceIds = <<>>
  /\ pendingEval = None /\ failsafe = None /\ failsafeCount = 0 /\ nextId = 0
  /\ chainHasCritState = FALSE
  /\ stepConfigs = <<>> /\ request = <<>> /\ diceResult = None
  /\ rollComplete = None

SpecRefs == InitRefs /\ [][Next]_vars

\* the position of the step with the id in the preset
PositionOf(stepId) == CHOOSE k \in DOMAIN preset : preset[k].id = stepId

\* the step has a step-result condition on a step that does not stand before
\* it in the preset: itself, a later step, or a step the preset does not have
RefersNotBefore(stepId) ==
  LET step == preset[PositionOf(stepId)]
  IN /\ step.condition # NoCondition
     /\ step.condition.checkSource = "step_result"
     /\ \A j \in 1..(PositionOf(stepId) - 1) : preset[j].id # step.condition.dependsOnStepId

AllSkipped(list) ==
  \A k \in DOMAIN list : RefersNotBefore(list[k].stepId) => list[k].skipped

\* C25: a step whose step-result condition refers to itself, to a later step
\* of the chain or to a step that does not exist is always skipped in a chain
\* execution, whatever the operator, the threshold and the die values: every
\* result of such a step, displayed or reported, is a skipped one.
C25_BadReferenceSkipped ==
  /\ AllSkipped(results)
  /\ rollComplete # None => AllSkipped(Reported)

---------------------------------------------------------------------------
(* Specification of the simultaneous roller on chains whose conditional
   steps have the crit flag *)

\* the steps that can stand at position i of such a preset
SkipStepsAt(i) ==
  LET id == StepIds[i]
      onPrev(op, val) == RollCondition("step_result", PrevId(i), "", op, "value", val, "")
      onVar(var, op, val) == RollCondition("variable", "", var, op, "value", val, "")
  IN << RollStep(id, "standard", D20, TRUE, TRUE, NoCondition),
       RollStep(id, "standard", D6Plus2, FALSE, TRUE, NoCondition),
       RollStep(id, "standard", D20, TRUE, TRUE, onVar("u", ">", 0)),
       RollStep(id, "standard", D20, TRUE, FALSE, onPrev(">", 10)),
       RollStep(id, "daggerheart", TwoD12, TRUE, TRUE, onPrev("is_hope", Undefined)) >>

SkipPreset(pick) == [i \in DOMAIN pick |-> SkipStepsAt(i)[pick[i]]]

InitSkips ==
  /\ EngineIdle
  /\ mode = "simultaneous"
  /\ \E n \in 1..MaxSteps : \E pick \in [1..n -> 1..5] : preset = SkipPreset(pick)
  /\ variables = ChainVariables
  /\ phase = "mounted"
  /\ results = <<>> /\ isComplete = FALSE /\ currentStepIndex = 0
  /\ sceneDice = <<>> /\ activeDiceIds = <<>>
  /\ pendingEval = None /\ failsafe = None /\ failsafeCount = 0 /\ nextId = 0
  /\ chainHasCritState = FALSE
  /\ stepConfigs = <<>> /\ request = <<>> /\ diceResult = None
  /\ rollComplete = None

NextSimultaneous ==
  \/ ExecuteSimultaneousRoll
  \/ DicePlusAnswers
  \/ DicePlusTimesOut
  \/ ProcessRollResults

SpecSimultaneous == InitSkips /\ [][NextSimultaneous]_vars

\* the results processRollResults computes from the groups
resultsOf(groups) == secondPass(1, <<>>, firstPass(groups), anyStepSetsCrit(groups))

\* the step with the id has a skipped result in the list
SkippedIn(list, stepId) ==
  \E k \in DOMAIN list : list[k].stepId = stepId /\ list[k].skipped

\* the answer other differs from the answer groups only in the values of the
\* dice of steps that the list has skipped
DiffersOnSkippedOnly(groups, other, list) ==
  /\ Len(other) = Len(groups)
  /\ \A k \in DOMAIN groups :
       ~SkippedIn(list, groups[k].description[1]) => other[k] = groups[k]

\* the lists have the same results for the steps that the first has not
\* skipped, and the same grand total
SameOutcome(list, otherList) ==
  /\ Len(otherList) = Len(list)
  /\ \A k \in DOMAIN list : ~list[k].skipped => otherList[k] = list[k]
  /\ grandTotalOf(otherList) = grandTotalOf(list)

\* C26: in simultaneous mode the values of the dice of a skipped step
\* influence nothing: an execution of the same chain on an answer that
\* differs only in the dice of skipped steps gives the same results for all
\* other steps and the same grand total.
C26_SkippedDiceInfluenceNothing ==
  (mode = "simultaneous" /\ phase = "complete" /\ diceResult # mockResult) =>
    \A other \in Answers(request) :
      DiffersOnSkippedOnly(diceResult.groups, other, results)
        => SameOutcome(results, resultsOf(other))

---------------------------------------------------------------------------
(* DicePlus.ts: the calls of DicePlus.roll and the roll-result channel.
   In this specification input is the environment of the calls (OBR, the
   messages broadcast on the channel and the record of their delivery),
   call the position of each call and ret the promise of each call *)

\* the rollId of the two calls that are followed, and the rollId of a roll
\* of somebody else
RollIds == {"roll_1", "roll_2"}
ForeignId == "roll_x"

\* data.result of a message: the property may be missing, and so may its
\* groups
RawResult(present, hasGroups, groups) ==
  [present |-> present, hasGroups |-> hasGroups, groups |-> groups]

\* the data of the messages on the roll-result channel: a rollId and the
\* result property; the answers to the two calls may lack the result or
\* hold one of two results
MessageData ==
  [rollId : RollIds,
   result : {RawResult(FALSE, FALSE, <<>>), RawResult(TRUE, TRUE, <<"g1">>),
             RawResult(TRUE, TRUE, <<"g2">>)}]
  \cup {[rollId |-> ForeignId, result |-> RawResult(TRUE, TRUE, <<"g2">>)]}

\* parseResult(data): groups: rawResult.groups || [], and no groups when
\* the result property is missing
parseResult(data) ==
  IF ~data.result.present THEN [groups |-> <<>>]
  ELSE [groups |-> IF data.result.hasGroups THEN data.result.groups ELSE <<>>]

\* data && data.rollId === rollId, with every message accepted
matches_AnyRollId(data, rollId) == data # None

\* data && data.rollId === rollId
matches(data, rollId) == data # None /\ data.rollId = rollId

\* resolve(value) on the promise p: the first call settles it, later calls
\* have no effect
resolve(p, value) ==
  IF p.settled THEN [p EXCEPT !.resolveCalls = @ + 1]
  ELSE [settled |-> TRUE, value |-> value, resolveCalls |-> p.resolveCalls + 1]

\* cleanup(): clearTimeout(timeout) and unsubscribe()
cleanup(c) == [c EXCEPT !.timer = FALSE, !.listener = FALSE]

InitDicePlus ==
  /\ \E available \in BOOLEAN :
       input = [available |-> available, channel |-> {}, broadcast |-> 0, delivered |-> <<>>]
  /\ call = [id \in RollIds |-> [stage |-> "none", listener |-> FALSE, timer |-> FALSE]]
  /\ ret = [id \in RollIds |-> [settled |-> FALSE, value |-> None, resolveCalls |-> 0]]
  /\ ChainIdle

\* roll(formula) up to its first await: without OBR it returns the mock;
\* else it sets the timer and registers the listener
Roll(id) ==
  /\ call[id].stage = "none"
  /\ IF ~input.available
     THEN /\ call' = [call EXCEPT ![id].stage = "returned"]
          /\ ret' = [ret EXCEPT ![id] = resolve(@, mockResult)]
     ELSE /\ call' = [call EXCEPT ![id] = [stage |-> "sending", listener |-> TRUE,
                                           timer |-> TRUE]]
          /\ ret' = ret
  /\ UNCHANGED <<input, chainVars>>

\* the awaits of the try block succeed: the request is sent
SendMessage(id) ==
  /\ call[id].stage = "sending"
  /\ call' = [call EXCEPT ![id].stage = "sent"]
  /\ UNCHANGED <<input, ret, chainVars>>

\* catch (err): cleanup() and resolve(this.mockResult(formula))
SendFails(id) ==
  /\ call[id].stage = "sending"
  /\ call' = [call EXCEPT ![id] = cleanup([@ EXCEPT !.stage = "failed"])]
  /\ ret' = [ret EXCEPT ![id] = resolve(@, mockResult)]
  /\ UNCHANGED <<input, chainVars>>

\* somebody broadcasts on the roll-result channel: Dice+ answers a request
\* that is being sent or was sent, once or again, or answers somebody else
Broadcast ==
  /\ input.broadcast < MaxMessages
  /\ \E data \in MessageData :
       /\ data.rollId \in RollIds => call[data.rollId].stage \in {"sending", "sent"}
       /\ input' = [input EXCEPT !.broadcast = @ + 1,
                                 !.channel = @ \cup {[data |-> data, nr |-> input.broadcast + 1]}]
  /\ UNCHANGED <<call, ret, chainVars>>

\* handleMessage of the call id on the data: the state of the call after it
handleMessageCall(id, data) ==
  IF call[id].listener /\ matches(data, id) THEN cleanup(call[id]) ELSE call[id]

\* handleMessage of the call id on the data: its promise after it
handleMessagePromise(id, data) ==
  IF call[id].listener /\ matches(data, id) THEN resolve(ret[id], parseResult(data))
  ELSE ret[id]

\* a message of the channel is delivered to the listeners that are
\* registered
Deliver ==
  /\ \E m \in input.channel :
       /\ input' = [input EXCEPT
                      !.channel = @ \ {m},
                      !.delivered = Append(@, [data |-> m.data,
                                               listening |-> {id \in RollIds : call[id].listener}])]
       /\ call' = [id \in RollIds |-> handleMessageCall(id, m.data)]
       /\ ret' = [id \in RollIds |-> handleMessagePromise(id, m.data)]
  /\ UNCHANGED chainVars

\* the 5 s timer of the call fires: cleanup() and
\* resolve(this.mockResult(formula))
RollTimesOut(id) ==
  /\ call[id].timer
  /\ call' = [call EXCEPT ![id] = cleanup(@)]
  /\ ret' = [ret EXCEPT ![id] = resolve(@, mockResult)]
  /\ UNCHANGED <<input, chainVars>>

NextDicePlus ==
  \/ \E id \in RollIds : Roll(id)
  \/ \E id \in RollIds : SendMessage(id)
  \/ \E id \in RollIds : SendFails(id)
  \/ Broadcast
  \/ Deliver
  \/ \E id \in RollIds : RollTimesOut(id)

\* a timer that is set fires unless it is cleared
SpecDicePlus ==
  InitDicePlus /\ [][NextDicePlus]_vars /\ \A id \in RollIds : WF_vars(RollTimesOut(id))

---------------------------------------------------------------------------
(* Claims about DicePlus.roll *)

\* the call has begun and OBR is there
Started(id) == call[id].stage # "none"

\* the deliveries of a message with the rollId of the call while its
\* listener was registered
HeardBy(id) ==
  {k \in DOMAIN input.delivered :
     input.delivered[k].data.rollId = id /\ id \in input.delivered[k].listening}

\* what the promise of the call must have resolved with: the parsed result
\* of the first such message, the fallback if there is none
DueValue(id) ==
  IF HeardBy(id) # {}
  THEN parseResult(input.delivered[CHOOSE k \in HeardBy(id) :
                                     \A l \in HeardBy(id) : k <= l].data)
  ELSE mockResult

\* a resolved call has neither listener nor timer and has the due value; a
\* call that heard its answer is resolved; a call that has begun and is not
\* resolved has its timer running
ResolvedRight(id) ==
  /\ ret[id].settled => ~call[id].listener /\ ~call[id].timer /\ ret[id].value = DueValue(id)
  /\ HeardBy(id) # {} => ret[id].settled
  /\ (Started(id) /\ ~ret[id].settled) => call[id].timer /\ call[id].listener

\* C27: each call of DicePlus.roll resolves exactly once: with the parsed
\* result of the first roll-result message that carries its rollId and
\* arrives while it waits, else with the fallback result; a message with
\* another rollId never resolves it; once resolved its listener is
\* unsubscribed and its timer cleared, so nothing that arrives later changes
\* what it resolved with; and every call that has begun does resolve.
C27_RollResolvesOnce ==
  /\ [](\A id \in RollIds : ResolvedRight(id))
  /\ [][\A id \in RollIds : ret[id].settled => ret'[id].settled /\ ret'[id].value = ret[id].value]_vars
  /\ \A id \in RollIds : [](Started(id) => <>ret[id].settled)

\* the first call heard the answer to somebody else's roll and the answer
\* to the second call without resolving, resolved with its own answer g1,
\* and a second answer g2 came too late
C27_Witness ==
  /\ Len(input.delivered) = 3
  /\ input.delivered[1].data.rollId # "roll_1"
  /\ "roll_1" \in input.delivered[1].listening
  /\ input.delivered[2].data = [rollId |-> "roll_1", result |-> RawResult(TRUE, TRUE, <<"g1">>)]
  /\ "roll_1" \in input.delivered[2].listening
  /\ input.delivered[3].data = [rollId |-> "roll_1", result |-> RawResult(TRUE, TRUE, <<"g2">>)]
  /\ ret["roll_1"].settled
  /\ ret["roll_1"].value = [groups |-> <<"g1">>]
  /\ ret["roll_1"].resolveCalls = 1

---------------------------------------------------------------------------
(* Claims about the arrival of die values in the sequential roller *)

\* die values have arrived and a step was resolved: the displayed results
\* grow by a result that is not a skipped one
ValuesArrive ==
  /\ mode = "sequential"
  /\ Len(results') = Len(results) + 1
  /\ ~results'[Len(results')].skipped

\* the result r was resolved with a value of each of the dice planned for
\* its step
OwnDice(r) ==
  IF r.type = "daggerheart"
  THEN \A k \in DOMAIN r.rolls : IsNumber(r.rolls[k]) /\ r.rolls[k] >= 1
  ELSE /\ Len(r.rolls) = Len(PlannedDice(StepOf(r)))
       /\ \A k \in DOMAIN r.rolls : IsNumber(r.rolls[k])

\* when values arrive, the step resolved is the one whose dice were
\* requested last, it has no earlier resolved result, it is resolved with
\* its own dice, and the chain continues with the next index
ResolvesRequestedStep ==
  ValuesArrive =>
    LET r == results'[Len(results')]
    IN /\ r.stepId = preset[currentStepIndex + 1].id
       /\ \A k \in DOMAIN results : results[k].stepId = r.stepId => results[k].skipped
       /\ OwnDice(r)
       /\ pendingEval' # None
       /\ pendingEval'.stepIdx = currentStepIndex + 1

\* C28: in sequential mode, whenever die values for a step arrive, from the
\* renderer or from the failsafe timer, the step that is resolved is the
\* step whose dice were requested last, with the values of its own dice, and
\* the chain continues with the step at the next index; no step is resolved
\* twice and none with an empty or foreign set of dice.
C28_ResolvesRequestedStep == [][ResolvesRequestedStep]_vars

---------------------------------------------------------------------------
(* Sequential roller with crit propagation: the revision of Roller.tsx that
   keeps chainHasCrit in its state, rolled with physics (instantMode off) *)

\* the state a render of this roller has in its scope
CritRender ==
  [results |-> results, currentStepIndex |-> currentStepIndex,
   activeDiceIds |-> activeDiceIds, sceneDice |-> sceneDice,
   chainHasCrit |-> chainHasCritState]

\* useEffect on the preset: the configs of all steps are computed once, the
\* state is reset and the first evaluation is scheduled
StartCritRoll ==
  /\ mode = "sequential_crit"
  /\ phase = "mounted"
  /\ phase' = "rolling"
  /\ \E configs \in {[i \in DOMAIN preset |-> getStepDiceConfig(preset[i], IdBase(i))]} :
       stepConfigs' = configs
  /\ results' = <<>>
  /\ currentStepIndex' = 0
  /\ isComplete' = FALSE
  /\ sceneDice' = <<>>
  /\ activeDiceIds' = <<>>
  /\ chainHasCritState' = FALSE
  /\ pendingEval' = [stepIdx |-> 0, currentResults |-> <<>>, closure |-> CritRender]
  /\ UNCHANGED <<engineVars, mode, preset, variables, failsafe, failsafeCount, nextId,
                 request, diceResult, rollComplete>>

\* the timer of evaluateNextStep(stepIdx, currentResults) fires
EvaluateNextCritStep ==
  /\ mode = "sequential_crit"
  /\ pendingEval # None
  /\ LET stepIdx        == pendingEval.stepIdx
         currentResults == pendingEval.currentResults
     IN IF stepIdx >= Len(preset)
        THEN /\ rollComplete' = [results    |-> currentResults,
                                 grandTotal |-> calculateGrandTotalFromResults(currentResults)]
             /\ isComplete' = TRUE
             /\ phase' = "complete"
             /\ pendingEval' = None
             /\ UNCHANGED <<results, currentStepIndex, sceneDice, activeDiceIds, failsafe>>
        ELSE LET step == preset[stepIdx + 1]
             IN IF ~checkCondition(step, currentResults, variables)
                THEN LET newResults == Append(currentResults, createSkippedResult(step))
                     IN /\ results' = newResults
                        /\ pendingEval' = [stepIdx        |-> stepIdx + 1,
                                           currentResults |-> newResults,
                                           closure        |-> pendingEval.closure]
                        /\ UNCHANGED <<isComplete, phase, rollComplete, currentStepIndex,
                                       sceneDice, activeDiceIds, failsafe>>
                ELSE \E config \in {configOf(stepConfigs, step.id)} :
                        /\ currentStepIndex' = stepIdx
                        /\ sceneDice' = sceneDice \o config.dice
                        /\ activeDiceIds' = [k \in DOMAIN config.dice |-> config.dice[k].id]
                        /\ failsafe' = [dice |-> config.dice, closure |-> pendingEval.closure]
                        /\ pendingEval' = None
                        /\ UNCHANGED <<isComplete, phase, rollComplete, results>>
  /\ UNCHANGED <<engineVars, mode, preset, variables, failsafeCount, nextId,
                 chainHasCritState, stepConfigs, request, diceResult>>

\* the step rolled a crit that propagates: the two values of a duality step
\* are equal, or a d20 of a standard step shows 20
rolledAutoCrit(step, currentStepValues, currentStepConfig) ==
  IF step.type = "daggerheart"
  THEN /\ Cardinality(DOMAIN currentStepValues) = 2
       /\ \A a, b \in DOMAIN currentStepValues :
            StrictEq(currentStepValues[a], currentStepValues[b])
  ELSE \E k \in DOMAIN currentStepConfig :
         /\ StrictEq(Lookup(currentStepValues, currentStepConfig[k].id),
                     currentStepConfig[k].sides)
         /\ currentStepConfig[k].sides = 20

\* the state updates of handleRollComplete of the render r: finalResult is
\* displayed, result is carried on to the next evaluation
recordCritResult(r, result, finalResult, autoCrit) ==
  /\ failsafe' = None
  /\ results' = Append(results, finalResult)
  /\ activeDiceIds' = <<>>
  /\ chainHasCritState' = (chainHasCritState \/ autoCrit)
  /\ pendingEval' = [stepIdx        |-> r.currentStepIndex + 1,
                     currentResults |-> Append(r.results, result),
                     closure        |-> r]
  /\ UNCHANGED <<engineVars, mode, preset, variables, phase, isComplete,
                 currentStepIndex, sceneDice, nextId,
                 stepConfigs, request, diceResult, rollComplete>>

\* the two results of handleRollComplete for a step, its values and dice
resolveBoth(r, step, currentStepValues, currentStepConfig, totalModifier, autoCrit) ==
  recordCritResult(r,
    resolveStepResult(step, currentStepValues, currentStepConfig, totalModifier,
                      step.formula, FALSE),
    resolveStepResult(step, currentStepValues, currentStepConfig, totalModifier,
                      step.formula, r.chainHasCrit \/ autoCrit \/ step.isCrit),
    autoCrit)

\* handleRollComplete of the render r, called with diceValues
handleCritRollComplete(r, diceValues) ==
  LET stepDiceIds == r.activeDiceIds
      step        == preset[r.currentStepIndex + 1]
  IN \E currentStepValues \in {currentValues(diceValues, stepDiceIds)},
        currentStepConfig \in {filterDice(r.sceneDice, stepDiceIds)} :
       resolveBoth(r, step, currentStepValues, currentStepConfig,
                   Plus(configOf(stepConfigs, step.id).baseModifier,
                        getStatModifierValue(characterStats, step.statModifier)),
                   rolledAutoCrit(step, currentStepValues, currentStepConfig))

\* the dice of the scene have come to rest: DiceScene calls the
\* onRollComplete of the latest render
CritRendererReports ==
  /\ mode = "sequential_crit"
  /\ activeDiceIds # <<>>
  /\ \E diceValues \in Rolls(filterDice(sceneDice, activeDiceIds)) :
       handleCritRollComplete(CritRender, diceValues)
  /\ UNCHANGED failsafeCount

\* the failsafe timer fires and calls the handleRollComplete of the render
\* whose evaluateNextStep set it
CritFailsafeFires ==
  /\ mode = "sequential_crit"
  /\ failsafe # None
  /\ failsafeCount < MaxFailsafes
  /\ failsafeCount' = failsafeCount + 1
  /\ \E mock \in Rolls(failsafe.dice) :
       handleCritRollComplete(failsafe.closure, mock)

InitCrit ==
  /\ EngineIdle
  /\ mode = "sequential_crit"
  /\ \E n \in 1..MaxSteps : \E pick \in [1..n -> 1..6] : preset = Preset(pick)
  /\ variables = ChainVariables
  /\ phase = "mounted"
  /\ results = <<>> /\ isComplete = FALSE /\ currentStepIndex = 0
  /\ sceneDice = <<>> /\ activeDiceIds = <<>>
  /\ pendingEval = None /\ failsafe = None /\ failsafeCount = 0 /\ nextId = 0
  /\ chainHasCritState = FALSE
  /\ stepConfigs = <<>> /\ request = <<>> /\ diceResult = None
  /\ rollComplete = None

NextCrit ==
  \/ StartCritRoll
  \/ EvaluateNextCritStep
  \/ CritRendererReports
  \/ CritFailsafeFires

SpecCrit == InitCrit /\ [][NextCrit]_vars

\* C29: in the sequential roller with crit propagation the result that is
\* carried on to the later steps and to ROLL_COMPLETE is the result that is
\* displayed, with the same total and the same wasCrit, and the grand total
\* sent in ROLL_COMPLETE is the grand total of the displayed results.
C29_CarriedIsDisplayed ==
  mode = "sequential_crit" =>
    /\ (pendingEval # None /\ pendingEval.currentResults # <<>> /\ results # <<>>) =>
         LET carried   == pendingEval.currentResults[Len(pendingEval.currentResults)]
             displayed == results[Len(results)]
         IN carried.total = displayed.total /\ carried.wasCrit = displayed.wasCrit
    /\ rollComplete # None =>
         rollComplete.grandTotal = calculateGrandTotalFromResults(results)

---------------------------------------------------------------------------
(* The automatic fear update at the end of processRollResults.  In this
   specification input is the environment of the call (OBR.isAvailable, the
   calculatedResults, the fear of the room before), call holds the position
   of the async handler of each result and ret is the room: its metadata
   value, the requests on their way to it and the FEAR_UPDATE broadcasts *)

\* if (currentFear < 12)
MaxFear == 12

\* what the handler reads of a result
FearResult(type, dhOutcome) == [type |-> type, dhOutcome |-> dhOutcome]

\* a standard result, a skipped duality result and the three outcomes
FearResults ==
  {FearResult("standard", "none"), FearResult("daggerheart", "none"),
   FearResult("daggerheart", "hope"), FearResult("daggerheart", "fear"),
   FearResult("daggerheart", "crit")}

\* metadata[METADATA_KEY] before the chain: absent or a fear of the room
FearBefore == {Undefined} \cup 0..MaxFear

\* a request to the room
RoomRequest(op, from, value) == [op |-> op, from |-> from, value |-> value]

\* res.type === 'daggerheart' && res.dhOutcome, res.dhOutcome === 'fear'
\* && OBR.isAvailable
updatesFear(res, isAvailable) ==
  /\ res.type = "daggerheart" /\ res.dhOutcome # "none"
  /\ res.dhOutcome = "fear" /\ isAvailable

RECURSIVE getMetadataRequests(_, _, _)
\* the getMetadata() calls of the handlers from position i on, in the order
\* of the forEach
getMetadataRequests(calculatedResults, isAvailable, i) ==
  IF i > Len(calculatedResults) THEN <<>>
  ELSE (IF updatesFear(calculatedResults[i], isAvailable)
        THEN <<RoomRequest("get", i, 0)>> ELSE <<>>)
       \o getMetadataRequests(calculatedResults, isAvailable, i + 1)

InitFear ==
  /\ \E isAvailable \in BOOLEAN, fear \in FearBefore, n \in 0..MaxSteps :
       \E calculatedResults \in [1..n -> FearResults] :
         /\ input = [isAvailable |-> isAvailable, calculatedResults |-> calculatedResults,
                     fearBefore |-> fear]
         /\ call = [i \in 1..n |-> [stage |-> "idle", currentFear |-> Undefined]]
         /\ ret = [fear |-> fear, requests |-> <<>>, broadcasts |-> <<>>]
  /\ ChainIdle

\* calculatedResults.forEach(async res => ...): every handler runs up to its
\* await; those of a fear outcome have called getMetadata()
ForEachResult ==
  /\ call # <<>>
  /\ \A i \in DOMAIN call : call[i].stage = "idle"
  /\ call' = [i \in DOMAIN call |->
                [call[i] EXCEPT !.stage =
                   IF updatesFear(input.calculatedResults[i], input.isAvailable)
                   THEN "awaiting" ELSE "done"]]
  /\ ret' = [ret EXCEPT !.requests =
                getMetadataRequests(input.calculatedResults, input.isAvailable, 1)]
  /\ UNCHANGED <<input, chainVars>>

\* the room serves the oldest request: getMetadata() answers with the value
\* it has now, setMetadata() stores the value
RoomServes ==
  /\ ret.requests # <<>>
  /\ LET req == Head(ret.requests)
     IN IF req.op = "get"
        THEN /\ call' = [call EXCEPT ![req.from] =
                           [stage |-> "answered", currentFear |-> ret.fear]]
             /\ ret' = [ret EXCEPT !.requests = Tail(@)]
        ELSE /\ ret' = [ret EXCEPT !.requests = Tail(@), !.fear = req.value]
             /\ call' = call
  /\ UNCHANGED <<input, chainVars>>

\* the handler of result i continues after its await
HandlerContinues(i) ==
  /\ call[i].stage = "answered"
  /\ LET currentFear == OrElse(call[i].currentFear, 0)
         newFear     == currentFear + 1
     IN IF currentFear < MaxFear
        THEN ret' = [ret EXCEPT !.requests = Append(@, RoomRequest("set", i, newFear)),
                                !.broadcasts = Append(@, newFear)]
        ELSE ret' = ret
  /\ call' = [call EXCEPT ![i].stage = "done"]
  /\ UNCHANGED <<input, chainVars>>

NextFear ==
  \/ ForEachResult
  \/ RoomServes
  \/ \E i \in DOMAIN call : HandlerContinues(i)

SpecFear == InitFear /\ [][NextFear]_vars

\* the number of results with outcome fear
FearOutcomes ==
  Cardinality({i \in DOMAIN input.calculatedResults :
                 /\ input.calculatedResults[i].type = "daggerheart"
                 /\ input.calculatedResults[i].dhOutcome = "fear"})

\* every handler has finished and the room has served every request
FearSettled ==
  /\ \A i \in DOMAIN call : call[i].stage = "done"
  /\ ret.requests = <<>>

\* C30: after a chain whose results hold k duality steps with outcome fear
\* the fear of the room, f before, ends at min(12, f + k), and it never
\* exceeds 12, although the handlers of the results read and then write the
\* same metadata key concurrently.
C30_FearCounted ==
  input.isAvailable =>
    /\ OrElse(ret.fear, 0) <= MaxFear
    /\ (call # <<>> /\ FearSettled) =>
         LET f == OrElse(input.fearBefore, 0)
             k == FearOutcomes
         IN OrElse(ret.fear, 0) = (IF f + k < MaxFear THEN f + k ELSE MaxFear)

====
